---- MODULE Spec2Model ----
(***************************************************************************)
(* Eurofolic CIMS (src/src/App.jsx): the App component's state, the CRUD   *)
(* handlers over the Supabase tables, the hold<->sale conversion and the   *)
(* derived metrics of calcMetrics.                                         *)
(*                                                                         *)
(* Numbers.  Pack quantities are fractional in the program (vials divided  *)
(* by the vials per pack).  Every quantity that the program holds as a     *)
(* fractional number is held here in tenths (fixed point, Scale = 10):     *)
(* units, vials typed into a form, revenue, cost.  Prices and costs per    *)
(* vial or per pack are whole euros.  Quotients (avgCost and what is       *)
(* derived from it) are exact fractions [n, d].                            *)
(* The conversions of the entry forms and the sums of the Dashboard are    *)
(* also modelled on JavaScript numbers themselves: IEEE-754 doubles as a   *)
(* 53-bit mantissa and an exponent, with the rounding of each operation    *)
(* (SpecNumbers, SpecDashboard).                                           *)
(*                                                                         *)
(* Backend.  Every Supabase call either succeeds or fails; a failing call  *)
(* leaves its table unchanged.  Each handler is one action, its backend    *)
(* outcomes being inputs of the action.                                    *)
(***************************************************************************)
EXTENDS Integers, Sequences, FiniteSets, TLC

\* ------------------------------------------------------------------ bounds
\* The number of rows inserted in one run; no insert is issued after that.
MaxInserts == 2

\* The number of operations whose backend call has not returned yet.
MaxInFlight == 2

\* ------------------------------------------------------- program constants
Scale == 10

SIZES == <<"5ml", "10ml", "100ml">>

VIALS_PER_PACK == [s \in {"5ml", "10ml", "100ml"} |-> IF s = "100ml" THEN 1 ELSE 5]

SizeSet == {SIZES[i] : i \in 1..Len(SIZES)}

\* JavaScript null for text columns, and for id columns (ids start at 1;
\* `x || null` sends every falsy x to null).
Null == "null"

NoId == 0

\* ---------------------------------------------------------------- inputs
\* What a user can type or select; the sets are small, the code accepts more.
TabInputs == {"dashboard", "sales", "purchases", "pipeline", "reports", "setup"}

SizeInputs == {"5ml", "100ml"}

\* Number of vials typed into the forms, in tenths (25 is two vials and a half).
PurchaseVialInputs == {20}

SaleVialInputs == {10, 30}

HoldVialInputs == {20, 25}

SampleVialInputs == {5}

PipelineVialInputs == {20}

PricePerVialInputs == {3}

CostPerVialInputs == {4}

BatchInputs == {"B1"}

StatusInputs == {"Ordered", "Delayed"}

\* The customers offered by the customer select (id, name, country).
CustomerInputs == {[id |-> "c1", name |-> "Acme", country |-> "Spain"]}

DestinationInputs == {"France"}

PasswordInputs == {"admin123", "pw"}

\* What is typed into the user name field of the login screen.
\* The user names the administrator gives to the users added in Setup.
NewUsernameInputs == {"s_m"}

UsernameInputs == {"admin", "Admin", "sam", "%", "s_m"}

\* The tabs of the sections that write data.
DataTabs == {"sales", "purchases", "pipeline"}

\* Outcomes of the backend calls of one handler, in call order (TRUE: the call
\* succeeded); a call after the first failing one is not made.
Outcomes1 == {<<FALSE>>, <<TRUE>>}

Outcomes2 == {<<FALSE, FALSE>>, <<TRUE, FALSE>>, <<TRUE, TRUE>>}

Outcomes3 == {<<FALSE, FALSE, FALSE>>, <<TRUE, FALSE, FALSE>>, <<TRUE, TRUE, FALSE>>,
              <<TRUE, TRUE, TRUE>>}

Today == "2026-01-01"

\* The rows of the users table at start-up.
UsersTable ==
  { [id |-> 1, username |-> "admin", password |-> "admin123", role |-> "admin",
     name |-> "Administrator", initials |-> "ADM"],
    [id |-> 2, username |-> "sam", password |-> "pw", role |-> "user",
     name |-> "Sam", initials |-> "SAM"] }

\* -------------------------------------------------------- JavaScript helpers
\* parseInt of a non-integral number truncates towards zero (x in tenths).
ParseInt(x) == IF x >= 0 THEN x \div Scale ELSE -((-x) \div Scale)

\* Math.round(x) = floor(x + 0.5) (x in tenths).
MathRound(x) == (x + 5) \div Scale

\* a / b for a quantity in tenths and a whole divisor.
DivBy(a, b) == a \div b

\* prev.filter(pred) keeps the order of the kept elements.
FilterSeq(seq, Keep(_)) == SelectSeq(seq, Keep)

\* [x, ...prev]
Prepend(x, seq) == <<x>> \o seq

RECURSIVE Reduce(_, _, _)
\* seq.reduce((a, x) => a + f(x), init)
Reduce(F(_), seq, init) ==
  IF seq = <<>> THEN init ELSE Reduce(F, Tail(seq), init + F(Head(seq)))

Ids(seq) == {seq[i].id : i \in 1..Len(seq)}

Find(seq, id) == seq[CHOOSE i \in 1..Len(seq) : seq[i].id = id]

\* ------------------------------------------------------------------ state
VARIABLES
  db,                 \* the Supabase tables: a list of rows per table, oldest first
  session,            \* localStorage 'eurofolic-session'
  currentUser,        \* useState(null)
  activeTab,          \* useState('dashboard')
  activeSize,         \* useState('5ml')
  sales,              \* useState([])
  purchases,          \* useState([])
  pipelinePurchases,  \* useState([])
  stockHolds,         \* useState([])
  stockAdjustments,   \* useState([])
  loading,            \* useState(true)
  dbConnected,        \* useState(false)
  nextId,             \* the id the database assigns to the next inserted row
  inserted,           \* history: every row ever inserted, by id (deleted rows included)
  users,              \* the users table of the database
  inflight,           \* the add and delete operations whose backend call has not returned
  last                \* the last handler that ran: its arguments, backend outcomes and result

vars == <<db, session, currentUser, activeTab, activeSize, sales, purchases,
          pipelinePurchases, stockHolds, stockAdjustments, loading, dbConnected,
          nextId, inserted, users, inflight, last>>

Tables == {"sales", "purchases", "pipeline_purchases", "stock_holds", "stock_adjustments"}

\* The selects of loadAllData that return no data: none, or all of them.
LoadFailures == {{}, Tables}

\* currentUser === null, and no stored session
NoUser == [id |-> NoId, username |-> Null, role |-> Null, name |-> Null, initials |-> Null]

\* What a handler returns; Void is the result of a handler that returns nothing.
Void == [success |-> FALSE, id |-> NoId, error |-> "void"]

Success(id) == [success |-> TRUE, id |-> id, error |-> Null]

Failure(msg) == [success |-> FALSE, id |-> NoId, error |-> msg]

\* The part of the state the data handlers read and write, and what they hand back:
\* result is the handler's return value, calls the outcomes of its backend calls.
St ==
  [db |-> db, sales |-> sales, purchases |-> purchases,
   pipelinePurchases |-> pipelinePurchases, stockHolds |-> stockHolds,
   stockAdjustments |-> stockAdjustments, currentUser |-> currentUser,
   nextId |-> nextId, inserted |-> inserted, result |-> Void, calls |-> <<>>]

\* ------------------------------------------------------ snake_case <-> camelCase
CamelKey(k) ==
  CASE k = "customer_id" -> "customerId"
    [] k = "supplier_id" -> "supplierId"
    [] k = "end_destination" -> "endDestination"
    [] k = "batch_number" -> "batchNumber"
    [] k = "sale_date" -> "saleDate"
    [] k = "converted_from" -> "convertedFrom"
    [] k = "original_hold_id" -> "originalHoldId"
    [] k = "converted_by" -> "convertedBy"
    [] k = "created_by" -> "createdBy"
    [] k = "expiry_date" -> "expiryDate"
    [] k = "purchase_date" -> "purchaseDate"
    [] k = "hold_date" -> "holdDate"
    [] k = "reverted_from" -> "revertedFrom"
    [] k = "original_sale_id" -> "originalSaleId"
    [] k = "reverted_by" -> "revertedBy"
    [] k = "cost_per_pack" -> "costPerPack"
    [] k = "total_cost" -> "totalCost"
    [] k = "adjustment_date" -> "adjustmentDate"
    [] k = "po_number" -> "poNumber"
    [] k = "total_value" -> "totalValue"
    [] k = "expected_date" -> "expectedDate"
    [] OTHER -> k

toCamelCase(row) ==
  [ck \in {CamelKey(k) : k \in DOMAIN row} |->
     row[CHOOSE k \in DOMAIN row : CamelKey(k) = ck]]

\* obj.k || null for a text field, obj.k || null for an id field
OrNull(obj, k) == IF k \in DOMAIN obj /\ obj[k] # "" THEN obj[k] ELSE Null

IdOrNull(obj, k) == IF k \in DOMAIN obj THEN obj[k] ELSE NoId

\* currentUser?.initials || 'SYS'
Initials(user) == IF user = NoUser \/ user.initials = Null THEN "SYS" ELSE user.initials

RECURSIVE Reverse(_)
Reverse(seq) == IF seq = <<>> THEN <<>> ELSE Append(Reverse(Tail(seq)), Head(seq))

MapCamel(rows) == [i \in 1..Len(rows) |-> toCamelCase(rows[i])]

\* ------------------------------------------------------------ sales operations
\* What .insert([data]).select().single() does when it succeeds: the row gets the
\* next id, is stored and is handed back.
Insert(st, table, data) ==
  LET row == [k \in DOMAIN data \cup {"id"} |-> IF k = "id" THEN st.nextId ELSE data[k]]
  IN  [st EXCEPT !.db[table] = Append(@, row), !.nextId = @ + 1,
                 !.inserted = Append(@, row)]

\* What .delete().eq('id', id) does when it succeeds.
Delete(st, table, id) ==
  [st EXCEPT !.db[table] = FilterSeq(@, LAMBDA r : r.id # id)]

Called(st, ok) == [st EXCEPT !.calls = Append(@, IF ok THEN "ok" ELSE "error")]

\* Faulty variant: the lineage columns are not written.
saleDataWithoutLineage(st, sale) ==
  [customer_id |-> OrNull(sale, "customerId"),
   customer |-> sale.customer,
   country |-> sale.country,
   end_destination |-> sale.endDestination,
   size |-> sale.size,
   batch_number |-> sale.batchNumber,
   units |-> sale.units,
   price |-> sale.price,
   sale_date |-> sale.saleDate,
   converted_from |-> Null,
   original_hold_id |-> NoId,
   converted_by |-> OrNull(sale, "convertedBy"),
   created_by |-> Initials(st.currentUser)]

\* Faulty variant: the customer of the sale is not written.
saleDataWithoutCustomer(st, sale) ==
  [customer_id |-> Null,
   customer |-> sale.customer,
   country |-> sale.country,
   end_destination |-> sale.endDestination,
   size |-> sale.size,
   batch_number |-> sale.batchNumber,
   units |-> sale.units,
   price |-> sale.price,
   sale_date |-> sale.saleDate,
   converted_from |-> OrNull(sale, "convertedFrom"),
   original_hold_id |-> IdOrNull(sale, "originalHoldId"),
   converted_by |-> OrNull(sale, "convertedBy"),
   created_by |-> Initials(st.currentUser)]

saleData(st, sale) ==
  [customer_id |-> OrNull(sale, "customerId"),
   customer |-> sale.customer,
   country |-> sale.country,
   end_destination |-> sale.endDestination,
   size |-> sale.size,
   batch_number |-> sale.batchNumber,
   units |-> sale.units,
   price |-> sale.price,
   sale_date |-> sale.saleDate,
   converted_from |-> OrNull(sale, "convertedFrom"),
   original_hold_id |-> IdOrNull(sale, "originalHoldId"),
   converted_by |-> OrNull(sale, "convertedBy"),
   created_by |-> Initials(st.currentUser)]

addSale(st, sale, ok) ==
  LET c == Called(st, ok)
      i == Insert(c, "sales", saleData(st, sale))
      data == i.db.sales[Len(i.db.sales)]
  IN  IF ok
      THEN [i EXCEPT !.sales = Prepend(toCamelCase(data), @), !.result = Success(data.id)]
      ELSE [c EXCEPT !.result = Failure("insert failed")]

deleteSale(st, id, ok) ==
  LET c == Called(st, ok)
      d == Delete(c, "sales", id)
  IN  IF ok
      THEN [d EXCEPT !.sales = FilterSeq(@, LAMBDA s : s.id # id)]
      ELSE c

\* -------------------------------------------------------- purchases operations
purchaseData(st, purchase) ==
  [supplier_id |-> OrNull(purchase, "supplierId"),
   supplier |-> purchase.supplier,
   size |-> purchase.size,
   batch_number |-> purchase.batchNumber,
   expiry_date |-> purchase.expiryDate,
   units |-> purchase.units,
   cost |-> purchase.cost,
   purchase_date |-> purchase.purchaseDate,
   created_by |-> Initials(st.currentUser)]

addPurchase(st, purchase, ok) ==
  LET c == Called(st, ok)
      i == Insert(c, "purchases", purchaseData(st, purchase))
      data == i.db.purchases[Len(i.db.purchases)]
  IN  IF ok THEN [i EXCEPT !.purchases = Prepend(toCamelCase(data), @)] ELSE c

deletePurchase(st, id, ok) ==
  LET c == Called(st, ok)
      d == Delete(c, "purchases", id)
  IN  IF ok
      THEN [d EXCEPT !.purchases = FilterSeq(@, LAMBDA x : x.id # id)]
      ELSE c

\* --------------------------------------------------------- pipeline operations
\* Faulty variant: the status is stored as passed, without the 'Ordered' default.
pipelineDataWithoutDefault(st, pp) ==
  [po_number |-> pp.poNumber,
   supplier |-> pp.supplier,
   size |-> pp.size,
   units |-> pp.units,
   price |-> pp.price,
   total_value |-> pp.totalValue,
   expected_date |-> pp.expectedDate,
   status |-> IF "status" \in DOMAIN pp THEN pp.status ELSE Null,
   created_by |-> Initials(st.currentUser)]

pipelineData(st, pp) ==
  [po_number |-> pp.poNumber,
   supplier |-> pp.supplier,
   size |-> pp.size,
   units |-> pp.units,
   price |-> pp.price,
   total_value |-> pp.totalValue,
   expected_date |-> pp.expectedDate,
   status |-> IF "status" \in DOMAIN pp /\ pp.status # "" THEN pp.status ELSE "Ordered",
   created_by |-> Initials(st.currentUser)]

addPipelinePurchase(st, pp, ok) ==
  LET c == Called(st, ok)
      i == Insert(c, "pipeline_purchases", pipelineData(st, pp))
      data == i.db.pipeline_purchases[Len(i.db.pipeline_purchases)]
  IN  IF ok THEN [i EXCEPT !.pipelinePurchases = Append(@, toCamelCase(data))] ELSE c

deletePipelinePurchase(st, id, ok) ==
  LET c == Called(st, ok)
      d == Delete(c, "pipeline_purchases", id)
  IN  IF ok
      THEN [d EXCEPT !.pipelinePurchases = FilterSeq(@, LAMBDA x : x.id # id)]
      ELSE c

\* ------------------------------------------------------ stock holds operations
holdData(st, hold) ==
  [customer_id |-> OrNull(hold, "customerId"),
   customer |-> hold.customer,
   country |-> hold.country,
   end_destination |-> hold.endDestination,
   size |-> hold.size,
   units |-> hold.units,
   vials |-> ParseInt(hold.vials),
   notes |-> OrNull(hold, "notes"),
   hold_date |-> hold.holdDate,
   reverted_from |-> OrNull(hold, "revertedFrom"),
   original_sale_id |-> IdOrNull(hold, "originalSaleId"),
   reverted_by |-> OrNull(hold, "revertedBy"),
   created_by |-> Initials(st.currentUser)]

addStockHold(st, hold, ok) ==
  LET c == Called(st, ok)
      i == Insert(c, "stock_holds", holdData(st, hold))
      data == i.db.stock_holds[Len(i.db.stock_holds)]
  IN  IF ok
      THEN [i EXCEPT !.stockHolds = Prepend(toCamelCase(data), @), !.result = Success(data.id)]
      ELSE [c EXCEPT !.result = Failure("insert failed")]

\* Faulty variant: the hold leaves the local list although the delete failed.
deleteStockHoldOptimistic(st, id, ok) ==
  LET c == Called(st, ok)
      d == Delete(c, "stock_holds", id)
  IN  IF ok
      THEN [d EXCEPT !.stockHolds = FilterSeq(@, LAMBDA h : h.id # id)]
      ELSE [c EXCEPT !.stockHolds = FilterSeq(@, LAMBDA h : h.id # id)]

\* Faulty variant: deleting a hold also drops the sales converted from it.
deleteStockHoldReleasingSales(st, id, ok) ==
  LET c == Called(st, ok)
      d == Delete(c, "stock_holds", id)
  IN  IF ok
      THEN [d EXCEPT !.stockHolds = FilterSeq(@, LAMBDA h : h.id # id),
                     !.sales = FilterSeq(@, LAMBDA x : x.originalHoldId # id)]
      ELSE c

deleteStockHold(st, id, ok) ==
  LET c == Called(st, ok)
      d == Delete(c, "stock_holds", id)
  IN  IF ok
      THEN [d EXCEPT !.stockHolds = FilterSeq(@, LAMBDA h : h.id # id)]
      ELSE c

\* ------------------------------------------------ stock adjustments operations
adjustmentData(st, adjustment) ==
  [size |-> adjustment.size,
   batch_number |-> adjustment.batchNumber,
   units |-> adjustment.units,
   vials |-> ParseInt(adjustment.vials),
   reason |-> adjustment.reason,
   recipient |-> OrNull(adjustment, "recipient"),
   notes |-> OrNull(adjustment, "notes"),
   cost_per_pack |-> adjustment.costPerPack,
   total_cost |-> adjustment.totalCost,
   adjustment_date |-> adjustment.adjustmentDate,
   created_by |-> Initials(st.currentUser)]

addStockAdjustment(st, adjustment, ok) ==
  LET c == Called(st, ok)
      i == Insert(c, "stock_adjustments", adjustmentData(st, adjustment))
      data == i.db.stock_adjustments[Len(i.db.stock_adjustments)]
  IN  IF ok THEN [i EXCEPT !.stockAdjustments = Prepend(toCamelCase(data), @)] ELSE c

deleteStockAdjustment(st, id, ok) ==
  LET c == Called(st, ok)
      d == Delete(c, "stock_adjustments", id)
  IN  IF ok
      THEN [d EXCEPT !.stockAdjustments = FilterSeq(@, LAMBDA a : a.id # id)]
      ELSE c

\* ----------------------------------------------------------- special operations
\* The characters of the texts that are typed or stored as user names.
Chars(str) ==
  CASE str = "admin" -> <<"a", "d", "m", "i", "n">>
    [] str = "Admin" -> <<"A", "d", "m", "i", "n">>
    [] str = "sam" -> <<"s", "a", "m">>
    [] str = "SAM" -> <<"S", "A", "M">>
    [] str = "%" -> <<"%">>
    [] str = "s_m" -> <<"s", "_", "m">>
    [] OTHER -> <<str>>

LowerChar(c) ==
  CASE c = "A" -> "a"
    [] c = "M" -> "m"
    [] c = "S" -> "s"
    [] OTHER -> c

LowerChars(cs) == [i \in 1..Len(cs) |-> LowerChar(cs[i])]

\* toLowerCase of a user name
Lower(str) ==
  CASE str = "Admin" -> "admin"
    [] str = "SAM" -> "sam"
    [] OTHER -> str

RECURSIVE Like(_, _)
\* The LIKE of PostgreSQL: % matches any run of characters, _ any one character.
Like(cs, pattern) ==
  IF pattern = <<>> THEN cs = <<>>
  ELSE IF Head(pattern) = "%"
       THEN Like(cs, Tail(pattern)) \/ (cs # <<>> /\ Like(Tail(cs), pattern))
       ELSE /\ cs # <<>>
            /\ Head(pattern) = "_" \/ Head(pattern) = Head(cs)
            /\ Like(Tail(cs), Tail(pattern))

\* .ilike('username', pattern): LIKE without regard to letter case.
ILike(value, pattern) == Like(LowerChars(Chars(value)), LowerChars(Chars(pattern)))

\* .ilike('username', u).eq('password', p).single(): the row when exactly one matches.
MatchingUsers(username, password) ==
  {u \in users : ILike(u.username, username) /\ u.password = password}

verifyPassword(username, password, ok) ==
  ok /\ Cardinality(MatchingUsers(username, password)) = 1

\* Faulty variant: the hold is deleted whatever the insert of the sale returned.
convertHoldToSaleDeletingAnyway(st, holdId, saleDetails, okInsert, okDelete) ==
  IF holdId \notin Ids(st.stockHolds)
  THEN [st EXCEPT !.result = Failure("Stock hold not found")]
  ELSE
    LET hold == Find(st.stockHolds, holdId)
        saleResult ==
          addSale(st,
                  [batchNumber |-> saleDetails.batchNumber,
                   price |-> saleDetails.price,
                   saleDate |-> saleDetails.saleDate,
                   customer |-> hold.customer,
                   customerId |-> hold.customerId,
                   country |-> hold.country,
                   endDestination |-> hold.endDestination,
                   size |-> hold.size,
                   units |-> hold.units,
                   convertedFrom |-> "stockHold",
                   originalHoldId |-> holdId,
                   convertedBy |-> Initials(st.currentUser)],
                  okInsert)
        deleted == deleteStockHold(saleResult, holdId, TRUE)
    IN  IF ~saleResult.result.success
        THEN [deleted EXCEPT !.result = Failure(saleResult.result.error)]
        ELSE [deleted EXCEPT !.result = Success(saleResult.result.id)]

convertHoldToSale(st, holdId, saleDetails, okInsert, okDelete) ==
  IF holdId \notin Ids(st.stockHolds)
  THEN [st EXCEPT !.result = Failure("Stock hold not found")]
  ELSE
    LET hold == Find(st.stockHolds, holdId)
        saleResult ==
          addSale(st,
                  [batchNumber |-> saleDetails.batchNumber,
                   price |-> saleDetails.price,
                   saleDate |-> saleDetails.saleDate,
                   customer |-> hold.customer,
                   customerId |-> hold.customerId,
                   country |-> hold.country,
                   endDestination |-> hold.endDestination,
                   size |-> hold.size,
                   units |-> hold.units,
                   convertedFrom |-> "stockHold",
                   originalHoldId |-> holdId,
                   convertedBy |-> Initials(st.currentUser)],
                  okInsert)
        deleted == deleteStockHold(saleResult, holdId, okDelete)
    IN  IF ~saleResult.result.success
        THEN [saleResult EXCEPT !.result = Failure(saleResult.result.error)]
        ELSE [deleted EXCEPT !.result = Success(saleResult.result.id)]

\* Faulty variant: the sale's lineage is not looked at.
revertSaleToHoldUnchecked(st, saleId, okInsert, okDelete) ==
  IF saleId \notin Ids(st.sales)
  THEN [st EXCEPT !.result = Failure("Sale not found")]
  ELSE
    LET sale == Find(st.sales, saleId)
        holdResult ==
          addStockHold(st,
                       [customer |-> sale.customer,
                        customerId |-> sale.customerId,
                        country |-> sale.country,
                        endDestination |-> sale.endDestination,
                        size |-> sale.size,
                        units |-> sale.units,
                        vials |-> MathRound(sale.units * VIALS_PER_PACK[sale.size]) * Scale,
                        notes |-> "Reverted from sale",
                        holdDate |-> Today,
                        revertedFrom |-> "sale",
                        originalSaleId |-> saleId,
                        revertedBy |-> Initials(st.currentUser)],
                       okInsert)
        deleted == deleteSale(holdResult, saleId, okDelete)
    IN  IF ~holdResult.result.success
        THEN [holdResult EXCEPT !.result = Failure(holdResult.result.error)]
        ELSE [deleted EXCEPT !.result = Success(holdResult.result.id)]

\* revertSaleToHold that recreates the hold and leaves the sale in the list.
revertSaleToHoldKeepingSale(st, saleId, okInsert, okDelete) ==
  IF saleId \notin Ids(st.sales)
  THEN [st EXCEPT !.result = Failure("Sale not found")]
  ELSE
    LET sale == Find(st.sales, saleId)
        holdResult ==
          addStockHold(st,
                       [customer |-> sale.customer,
                        customerId |-> sale.customerId,
                        country |-> sale.country,
                        endDestination |-> sale.endDestination,
                        size |-> sale.size,
                        units |-> sale.units,
                        vials |-> IF "vials" \in DOMAIN sale /\ sale.vials # 0
                                  THEN sale.vials * Scale
                                  ELSE MathRound(sale.units * VIALS_PER_PACK[sale.size]) * Scale,
                        notes |-> "Reverted from sale",
                        holdDate |-> Today,
                        revertedFrom |-> "sale",
                        originalSaleId |-> saleId,
                        revertedBy |-> Initials(st.currentUser)],
                       okInsert)
        deleted == Called(holdResult, okDelete)
    IN  IF sale.convertedFrom # "stockHold"
        THEN [st EXCEPT !.result = Failure("This sale was not converted from a stock hold")]
        ELSE IF ~holdResult.result.success
        THEN [holdResult EXCEPT !.result = Failure(holdResult.result.error)]
        ELSE [deleted EXCEPT !.result = Success(holdResult.result.id)]

revertSaleToHold(st, saleId, okInsert, okDelete) ==
  IF saleId \notin Ids(st.sales)
  THEN [st EXCEPT !.result = Failure("Sale not found")]
  ELSE
    LET sale == Find(st.sales, saleId)
        holdResult ==
          addStockHold(st,
                       [customer |-> sale.customer,
                        customerId |-> sale.customerId,
                        country |-> sale.country,
                        endDestination |-> sale.endDestination,
                        size |-> sale.size,
                        units |-> sale.units,
                        vials |-> IF "vials" \in DOMAIN sale /\ sale.vials # 0
                                  THEN sale.vials * Scale
                                  ELSE MathRound(sale.units * VIALS_PER_PACK[sale.size]) * Scale,
                        notes |-> "Reverted from sale",
                        holdDate |-> Today,
                        revertedFrom |-> "sale",
                        originalSaleId |-> saleId,
                        revertedBy |-> Initials(st.currentUser)],
                       okInsert)
        deleted == deleteSale(holdResult, saleId, okDelete)
    IN  IF sale.convertedFrom # "stockHold"
        THEN [st EXCEPT !.result = Failure("This sale was not converted from a stock hold")]
        ELSE IF ~holdResult.result.success
        THEN [holdResult EXCEPT !.result = Failure(holdResult.result.error)]
        ELSE [deleted EXCEPT !.result = Success(holdResult.result.id)]

\* ------------------------------------------------------------------ calcMetrics
\* An exact fraction n / d, d > 0.
Frac(n, d) == [n |-> n, d |-> d]

\* a * f for a whole (or tenths) a and a fraction f
FracScale(a, f) == Frac(a * f.n, f.d)

\* a - f
FracSubFrom(a, f) == Frac(a * f.d - f.n, f.d)

FracEq(f, g) == f.n * g.d = g.n * f.d

\* Faulty variant: the average cost is computed without the guard on purchased.
avgCostOfUnguarded(cost, purchased) == Frac(cost, purchased)

\* Faulty variant: the pack figure is taken as the vial figure.
vialsOfUnconverted(packs, vialsPerPack) == packs

\* Faulty variant: the adjustments are left out of the stock.
stockOfWithoutAdjusted(purchased, sold, adjusted) == purchased - sold

\* const avgCost = purchased > 0 ? cost / purchased : 0
avgCostOf(cost, purchased) == IF purchased > 0 THEN Frac(cost, purchased) ELSE Frac(0, 1)

\* const stock = purchased - sold - adjusted
stockOf(purchased, sold, adjusted) == purchased - sold - adjusted

\* margin: revenue - (sold * avgCost)
marginOf(revenue, sold, avgCost) == FracSubFrom(revenue, FracScale(sold, avgCost))

\* packs * vialsPerPack
vialsOf(packs, vialsPerPack) == packs * vialsPerPack

calcMetrics(st) ==
  [size \in SizeSet |->
    LET ss == FilterSeq(st.sales, LAMBDA s : s.size = size)
        ps == FilterSeq(st.purchases, LAMBDA x : x.size = size)
        adj == FilterSeq(st.stockAdjustments, LAMBDA a : a.size = size)
        sold == Reduce(LAMBDA s : s.units, ss, 0)
        purchased == Reduce(LAMBDA x : x.units, ps, 0)
        adjusted == Reduce(LAMBDA a : a.units, adj, 0)
        adjustedValue == Reduce(LAMBDA a : a.units * a.costPerPack, adj, 0)
        revenue == Reduce(LAMBDA s : s.units * s.price, ss, 0)
        cost == Reduce(LAMBDA x : x.units * x.cost, ps, 0)
        avgCost == avgCostOf(cost, purchased)
        stock == stockOf(purchased, sold, adjusted)
        vialsPerPack == VIALS_PER_PACK[size]
    IN  [stock |-> stock, revenue |-> revenue, cost |-> cost, sold |-> sold,
         purchased |-> purchased, adjusted |-> adjusted,
         stockValue |-> FracScale(stock, avgCost),
         margin |-> marginOf(revenue, sold, avgCost),
         adjustedValue |-> adjustedValue,
         vialsPerPack |-> vialsPerPack,
         soldVials |-> vialsOf(sold, vialsPerPack),
         purchasedVials |-> vialsOf(purchased, vialsPerPack),
         adjustedVials |-> vialsOf(adjusted, vialsPerPack),
         stockVials |-> vialsOf(stock, vialsPerPack)]]

\* getBatches without the size filter on the sales: every sale of the batch number is
\* subtracted, whatever its size.
getBatchesOverAllSales(st, size) ==
  LET ps == FilterSeq(st.purchases, LAMBDA x : x.size = size)
      adj == FilterSeq(st.stockAdjustments, LAMBDA a : a.size = size)
      keys == {ps[i].batchNumber : i \in 1..Len(ps)}
      purchasedOf(b) == Reduce(LAMBDA x : IF x.batchNumber = b THEN x.units ELSE 0, ps, 0)
      soldOf(b) == Reduce(LAMBDA s : IF s.batchNumber = b THEN s.units ELSE 0, st.sales, 0)
      adjustedOf(b) == Reduce(LAMBDA a : IF a.batchNumber = b THEN a.units ELSE 0, adj, 0)
      avail(b) == purchasedOf(b) - soldOf(b) - adjustedOf(b)
  IN  {[batch |-> b, availablePacks |-> avail(b),
        availableVials |-> avail(b) * VIALS_PER_PACK[size]] : b \in {k \in keys : avail(k) > 0}}

\* ------------------------------------------------------------ Sales: getBatches
getBatches(st, size) ==
  LET ps == FilterSeq(st.purchases, LAMBDA x : x.size = size)
      ss == FilterSeq(st.sales, LAMBDA s : s.size = size)
      adj == FilterSeq(st.stockAdjustments, LAMBDA a : a.size = size)
      keys == {ps[i].batchNumber : i \in 1..Len(ps)}
      purchasedOf(b) == Reduce(LAMBDA x : IF x.batchNumber = b THEN x.units ELSE 0, ps, 0)
      soldOf(b) == Reduce(LAMBDA s : IF s.batchNumber = b THEN s.units ELSE 0, ss, 0)
      adjustedOf(b) == Reduce(LAMBDA a : IF a.batchNumber = b THEN a.units ELSE 0, adj, 0)
      avail(b) == purchasedOf(b) - soldOf(b) - adjustedOf(b)
  IN  {[batch |-> b, availablePacks |-> avail(b),
        availableVials |-> avail(b) * VIALS_PER_PACK[size]] : b \in {k \in keys : avail(k) > 0}}

getBatchCost(st, size, batchNumber) ==
  LET hits == {i \in 1..Len(st.purchases) :
                 st.purchases[i].batchNumber = batchNumber /\ st.purchases[i].size = size}
  IN  IF hits = {} THEN 0
      ELSE st.purchases[CHOOSE i \in hits : \A j \in hits : i <= j].cost

\* ------------------------------------------------------------- session and data
\* loadAllData: each select that returns data replaces the local list; failed is the
\* set of tables whose select returned no data.
loadAllData(st, failed) ==
  LET load(table, local) ==
        IF table \in failed THEN local ELSE Reverse(MapCamel(st.db[table]))
  IN  [st EXCEPT !.sales = load("sales", @),
                 !.purchases = load("purchases", @),
                 !.pipelinePurchases =
                    IF "pipeline_purchases" \in failed THEN @
                    ELSE MapCamel(st.db.pipeline_purchases),
                 !.stockHolds = load("stock_holds", @),
                 !.stockAdjustments = load("stock_adjustments", @)]

\* username.substring(0, 3).toUpperCase()
Upper3(username) ==
  CASE username = "admin" -> "ADM"
    [] username = "sam" -> "SAM"
    [] username = "s_m" -> "S_M"
    [] OTHER -> username

\* The session object handleLogin builds from the users row.
\* A session that carries the role of an ordinary user whatever the row says.
SessionOfOrdinaryUser(user) ==
  [id |-> user.id, username |-> user.username, role |-> "user", name |-> user.name,
   initials |-> IF user.initials = "" THEN Upper3(user.username) ELSE user.initials]

SessionOf(user) ==
  [id |-> user.id, username |-> user.username, role |-> user.role, name |-> user.name,
   initials |-> IF user.initials = "" THEN Upper3(user.username) ELSE user.initials]

isAdmin(user) == user.role = "admin"

\* The main screen is rendered: not loading, connected, logged in.
MainScreen == ~loading /\ dbConnected /\ currentUser # NoUser

\* The tab buttons offered to the user.
TabsShown(user) == (TabInputs \ {"setup"}) \cup (IF isAdmin(user) THEN {"setup"} ELSE {})

\* Faulty variant: the Setup section is rendered for any user whose tab is 'setup'.
SetupRenderedToAll == MainScreen /\ activeTab = "setup"

\* Faulty variant: the Delete button of a sale row is shown to every user.
SaleDeleteShownToAll(user) == TRUE

\* {activeTab === 'setup' && isAdmin && <Setup .../>}
SetupRendered == MainScreen /\ activeTab = "setup" /\ isAdmin(currentUser)

\* The row actions offered in the tables.
RevertShown(user, s) == isAdmin(user) /\ s.convertedFrom = "stockHold"

SaleDeleteShown(user) == isAdmin(user)

HoldDeleteShown(user) == isAdmin(user)

AdjustmentDeleteShown(user) == isAdmin(user)

PurchaseDeleteShown(user) == isAdmin(user)

PipelineDeleteShown(user) == isAdmin(user)

\* The rows of a table of the Sales and Purchases sections: those of the active size.
Filtered(seq) == {seq[i].id : i \in {j \in 1..Len(seq) : seq[j].size = activeSize}}

\* ------------------------------------------------------------------ transitions
NoArgs == [batchNumber |-> Null, price |-> 0, saleDate |-> Null]

\* The record of a handler run: op the handler, id the row it was called on, args the
\* details it was given, calls the outcomes of its backend calls, then what it returned.
Ran(op, id, st, err) ==
  [op |-> op, id |-> id, args |-> NoArgs, newId |-> st.result.id,
   success |-> st.result.success, error |-> err, calls |-> st.calls]

\* The state after a data handler: the lists and tables it left, and its record.
CommitWith(op, id, args, st) ==
  /\ db' = st.db
  /\ sales' = st.sales
  /\ purchases' = st.purchases
  /\ pipelinePurchases' = st.pipelinePurchases
  /\ stockHolds' = st.stockHolds
  /\ stockAdjustments' = st.stockAdjustments
  /\ nextId' = st.nextId
  /\ inserted' = st.inserted
  /\ last' = [Ran(op, id, st, st.result.error) EXCEPT !.args = args]
  /\ UNCHANGED <<session, currentUser, activeTab, activeSize, loading, dbConnected,
                 users, inflight>>

Commit(op, id, st) == CommitWith(op, id, NoArgs, st)

\* The purchases table as found at start-up: two purchases recorded earlier with the
\* purchase form by the administrator (2 vials of 5ml, batch B1, and 2 vials of 100ml,
\* batch B2, at 2 per vial).
InitialPurchases ==
  << [id |-> 1, supplier_id |-> "s1", supplier |-> "Supplier", size |-> "5ml",
      batch_number |-> "B1", expiry_date |-> Today, units |-> 4, cost |-> 10,
      purchase_date |-> Today, created_by |-> "ADM"],
     [id |-> 2, supplier_id |-> "s1", supplier |-> "Supplier", size |-> "100ml",
      batch_number |-> "B2", expiry_date |-> Today, units |-> 20, cost |-> 2,
      purchase_date |-> Today, created_by |-> "ADM"] >>

\* The stock_holds table as found at start-up: one hold recorded earlier with the
\* stock hold form by the user sam (2.5 vials of 5ml).
InitialHolds ==
  << [id |-> 3, customer_id |-> "c1", customer |-> "Acme", country |-> "Spain",
      end_destination |-> "France", size |-> "5ml", units |-> 5, vials |-> 2,
      notes |-> Null, hold_date |-> Today, reverted_from |-> Null,
      original_sale_id |-> NoId, reverted_by |-> Null, created_by |-> "SAM"] >>

InitialDb ==
  [t \in Tables |->
     CASE t = "purchases" -> InitialPurchases
       [] t = "stock_holds" -> InitialHolds
       [] OTHER -> <<>>]

FirstId == Len(InitialPurchases) + Len(InitialHolds) + 1

\* The last id the database assigns in a run.
MaxId == FirstId + MaxInserts - 1

Init ==
  /\ db = InitialDb
  /\ session = NoUser
  /\ currentUser = NoUser
  /\ activeTab = "dashboard"
  /\ activeSize = "5ml"
  /\ sales = <<>>
  /\ purchases = <<>>
  /\ pipelinePurchases = <<>>
  /\ stockHolds = <<>>
  /\ stockAdjustments = <<>>
  /\ loading = TRUE
  /\ dbConnected = FALSE
  /\ nextId = FirstId
  /\ inserted = InitialPurchases \o InitialHolds
  /\ users = UsersTable
  /\ inflight = <<>>
  /\ last = Ran("none", NoId, St, Null)

\* Faulty variant: the stored session is taken over without looking the user up.
checkLoginWithoutLookup(found, thrown) ==
  IF session = NoUser \/ thrown THEN <<currentUser, session>> ELSE <<session, session>>

\* checkLogin: a stored session is taken over when its user row is found, and
\* removed when the query returns no row; thrown means the query threw.
checkLogin(found, thrown) ==
  IF session = NoUser \/ thrown THEN <<currentUser, session>>
  ELSE IF found /\ \E u \in users : u.id = session.id THEN <<session, session>>
  ELSE <<currentUser, NoUser>>

\* The backend calls of initializeApp: the probe of the users table, then the lookup
\* of checkLogin when a session is stored.
InitCalls(configured, probeOk, found, thrown) ==
  IF ~configured THEN <<>>
  ELSE IF ~probeOk THEN <<"error">>
  ELSE IF session = NoUser THEN <<"ok">>
  ELSE <<"ok", IF thrown THEN "thrown" ELSE IF found THEN "ok" ELSE "error">>

\* initializeApp whose probe throws past setLoading(false): nothing catches it.
InitializeAppWithoutCatch ==
  /\ loading \/ ~dbConnected
  /\ \E configured, probeOk, found, thrown \in BOOLEAN, failed \in LoadFailures :
       LET connected == configured /\ probeOk
           login == checkLogin(found, thrown)
           st == loadAllData(St, failed)
       IN  /\ dbConnected' = connected
           /\ loading' = IF configured /\ ~probeOk THEN loading ELSE FALSE
           /\ currentUser' = IF connected THEN login[1] ELSE currentUser
           /\ session' = IF connected THEN login[2] ELSE session
           /\ sales' = IF connected THEN st.sales ELSE sales
           /\ purchases' = IF connected THEN st.purchases ELSE purchases
           /\ pipelinePurchases' = IF connected THEN st.pipelinePurchases ELSE pipelinePurchases
           /\ stockHolds' = IF connected THEN st.stockHolds ELSE stockHolds
           /\ stockAdjustments' = IF connected THEN st.stockAdjustments ELSE stockAdjustments
           /\ last' = [Ran("initializeApp", NoId, St, Null)
                         EXCEPT !.success = connected,
                                !.calls = InitCalls(configured, probeOk, found, thrown)]
  /\ UNCHANGED <<db, activeTab, activeSize, nextId, inserted, users, inflight>>

\* initializeApp, at mount and from the Retry button of the connection screen.
InitializeApp ==
  /\ loading \/ ~dbConnected
  /\ \E configured, probeOk, found, thrown \in BOOLEAN, failed \in LoadFailures :
       LET connected == configured /\ probeOk
           login == checkLogin(found, thrown)
           st == loadAllData(St, failed)
       IN  /\ dbConnected' = connected
           /\ loading' = FALSE
           /\ currentUser' = IF connected THEN login[1] ELSE currentUser
           /\ session' = IF connected THEN login[2] ELSE session
           /\ sales' = IF connected THEN st.sales ELSE sales
           /\ purchases' = IF connected THEN st.purchases ELSE purchases
           /\ pipelinePurchases' = IF connected THEN st.pipelinePurchases ELSE pipelinePurchases
           /\ stockHolds' = IF connected THEN st.stockHolds ELSE stockHolds
           /\ stockAdjustments' = IF connected THEN st.stockAdjustments ELSE stockAdjustments
           /\ last' = [Ran("initializeApp", NoId, St, Null)
                         EXCEPT !.success = connected,
                                !.calls = InitCalls(configured, probeOk, found, thrown)]
  /\ UNCHANGED <<db, activeTab, activeSize, nextId, inserted, users, inflight>>

\* LoginScreen.handleSubmit -> handleLogin(username, password)
HandleLoginWith(usernames) ==
  /\ ~loading /\ dbConnected /\ currentUser = NoUser
  /\ \E username \in usernames, password \in PasswordInputs,
        ok \in BOOLEAN, failed \in LoadFailures :
       LET rows == MatchingUsers(username, password)
           user == CHOOSE u \in rows : TRUE
           st == loadAllData(St, failed)
           typed == [username |-> username, password |-> password]
       IN  IF ok /\ Cardinality(rows) = 1
           THEN /\ currentUser' = SessionOf(user)
                /\ session' = SessionOf(user)
                /\ sales' = st.sales
                /\ purchases' = st.purchases
                /\ pipelinePurchases' = st.pipelinePurchases
                /\ stockHolds' = st.stockHolds
                /\ stockAdjustments' = st.stockAdjustments
                /\ last' = [Ran("handleLogin", user.id, St, Null)
                              EXCEPT !.success = TRUE, !.args = typed]
           ELSE /\ last' = [Ran("handleLogin", NoId, St, "Invalid credentials")
                              EXCEPT !.args = typed]
                /\ UNCHANGED <<currentUser, session, sales, purchases, pipelinePurchases,
                               stockHolds, stockAdjustments>>
  /\ UNCHANGED <<db, activeTab, activeSize, loading, dbConnected, nextId, inserted, users, inflight>>

\* A login with a user name typed as it is stored, and with any typed text.
HandleLogin == HandleLoginWith({"admin", "sam"})

HandleLoginTyped == HandleLoginWith(UsernameInputs)

\* A login of any user of the users table, the user name typed as it is stored.
HandleLoginStored == HandleLoginWith({u.username : u \in users})

HandleLogout ==
  /\ MainScreen
  /\ currentUser' = NoUser
  /\ session' = NoUser
  /\ last' = Ran("handleLogout", NoId, St, Null)
  /\ UNCHANGED <<db, activeTab, activeSize, sales, purchases, pipelinePurchases,
                 stockHolds, stockAdjustments, loading, dbConnected, nextId, inserted, users, inflight>>

\* The page is loaded again: the component state starts afresh, localStorage and the
\* database stay, and what was awaited is dropped.
Reload ==
  /\ ~loading
  /\ currentUser' = NoUser
  /\ activeTab' = "dashboard"
  /\ activeSize' = "5ml"
  /\ sales' = <<>>
  /\ purchases' = <<>>
  /\ pipelinePurchases' = <<>>
  /\ stockHolds' = <<>>
  /\ stockAdjustments' = <<>>
  /\ loading' = TRUE
  /\ dbConnected' = FALSE
  /\ inflight' = <<>>
  /\ last' = Ran("reload", NoId, St, Null)
  /\ UNCHANGED <<db, session, nextId, inserted, users>>

\* Users.deleteUser, clicked by an administrator in this browser or in another one.
\* deleteUser without the check of the user name.
DeleteUserUnguarded ==
  /\ \E a \in users : isAdmin(a)
  /\ \E user \in users, ok \in BOOLEAN :
       /\ users' = IF ~ok THEN users ELSE users \ {user}
       /\ last' = [Ran("deleteUser", user.id, St, Null)
                     EXCEPT !.calls = IF ok THEN <<"ok">> ELSE <<"error">>]
  /\ UNCHANGED <<db, session, currentUser, activeTab, activeSize, sales, purchases,
                 pipelinePurchases, stockHolds, stockAdjustments, loading, dbConnected,
                 nextId, inserted, inflight>>

DeleteUser ==
  /\ \E a \in users : isAdmin(a)
  /\ \E user \in users, ok \in BOOLEAN :
       /\ users' = IF user.username = "admin" \/ ~ok THEN users ELSE users \ {user}
       /\ last' = [Ran("deleteUser", user.id, St, Null)
                     EXCEPT !.calls = IF user.username = "admin" THEN <<>>
                                      ELSE IF ok THEN <<"ok">> ELSE <<"error">>]
  /\ UNCHANGED <<db, session, currentUser, activeTab, activeSize, sales, purchases,
                 pipelinePurchases, stockHolds, stockAdjustments, loading, dbConnected,
                 nextId, inserted, inflight>>

\* Users.addUser: the administrator adds a user in Setup; the initials are left empty.
AddUser ==
  /\ SetupRendered
  /\ Cardinality(users) <= Cardinality(UsersTable)
  /\ \E username \in NewUsernameInputs, password \in PasswordInputs, ok \in BOOLEAN :
       LET row == [id |-> Cardinality(UsersTable) + 1, username |-> username,
                   password |-> password, role |-> "user", name |-> "New User",
                   initials |-> Upper3(username)]
       IN  /\ users' = IF ok THEN users \cup {row} ELSE users
           /\ last' = [Ran("addUser", NoId, St, Null)
                         EXCEPT !.calls = <<IF ok THEN "ok" ELSE "error">>]
  /\ UNCHANGED <<db, session, currentUser, activeTab, activeSize, sales, purchases,
                 pipelinePurchases, stockHolds, stockAdjustments, loading, dbConnected,
                 nextId, inserted, inflight>>

SetActiveTabTo(tabs) ==
  /\ MainScreen
  /\ \E tab \in TabsShown(currentUser) \cap tabs : activeTab' = tab
  /\ last' = Ran("setActiveTab", NoId, St, Null)
  /\ UNCHANGED <<db, session, currentUser, activeSize, sales, purchases, pipelinePurchases,
                 stockHolds, stockAdjustments, loading, dbConnected, nextId, inserted, users, inflight>>

\* A click on any tab button, and a click on the tab of a section that writes data.
SetActiveTab == SetActiveTabTo(TabInputs)

SetActiveDataTab == SetActiveTabTo(DataTabs)

SetActiveSize ==
  /\ MainScreen /\ activeTab \in {"sales", "purchases"}
  /\ \E size \in SizeInputs : activeSize' = size
  /\ last' = Ran("setActiveSize", NoId, St, Null)
  /\ UNCHANGED <<db, session, currentUser, activeTab, sales, purchases, pipelinePurchases,
                 stockHolds, stockAdjustments, loading, dbConnected, nextId, inserted, users, inflight>>

\* ---------------------------------------------------------------- Sales section
SalesSection == MainScreen /\ activeTab = "sales" /\ nextId <= MaxId

\* Sales.handleSubmit: the sale form
SalesHandleSubmit ==
  /\ SalesSection
  /\ \E c \in CustomerInputs, dest \in DestinationInputs, vials \in SaleVialInputs,
        pricePerVial \in PricePerVialInputs, b \in getBatches(St, activeSize), ok \in BOOLEAN :
       LET vialsPerPack == VIALS_PER_PACK[activeSize]
           packs == DivBy(vials, vialsPerPack)
           pricePerPack == pricePerVial * vialsPerPack
       IN  Commit("handleSubmit", NoId,
                  addSale(St, [customerId |-> c.id, customer |-> c.name, country |-> c.country,
                               endDestination |-> dest, batchNumber |-> b.batch,
                               vials |-> vials, pricePerVial |-> pricePerVial,
                               saleDate |-> Today, size |-> activeSize, units |-> packs,
                               price |-> pricePerPack], ok))

\* Sales.handleHoldSubmit: the stock hold form
HandleHoldSubmit ==
  /\ SalesSection
  /\ \E c \in CustomerInputs, dest \in DestinationInputs, vials \in HoldVialInputs, ok \in BOOLEAN :
       LET vialsPerPack == VIALS_PER_PACK[activeSize]
           packs == DivBy(vials, vialsPerPack)
       IN  Commit("handleHoldSubmit", NoId,
                  addStockHold(St, [customerId |-> c.id, customer |-> c.name,
                                    country |-> c.country, endDestination |-> dest,
                                    vials |-> vials, notes |-> "", holdDate |-> Today,
                                    size |-> activeSize, units |-> packs], ok))

\* Sales.handleSampleSubmit: the sample form.  sampleForm.batchNumber is the batch
\* picked in the select, which offered the batches of the size active at that moment;
\* a click on a size button since then leaves the form as it is.
HandleSampleSubmit ==
  /\ SalesSection
  /\ \E vials \in SampleVialInputs, pickedUnder \in SizeInputs, ok \in BOOLEAN :
     \E b \in getBatches(St, pickedUnder) :
       LET vialsPerPack == VIALS_PER_PACK[activeSize]
           packs == DivBy(vials, vialsPerPack)
           costPerPack == getBatchCost(St, activeSize, b.batch)
       IN  Commit("handleSampleSubmit", NoId,
                  addStockAdjustment(St, [batchNumber |-> b.batch, vials |-> vials,
                                          reason |-> "Retention Sample", recipient |-> "",
                                          notes |-> "", adjustmentDate |-> Today,
                                          size |-> activeSize, units |-> packs,
                                          costPerPack |-> costPerPack,
                                          totalCost |-> packs * costPerPack], ok))

\* Sales.handleConvertToSale on the hold picked by openConvertModal
HandleConvertToSale ==
  /\ SalesSection
  /\ \E holdId \in Filtered(stockHolds), b \in getBatches(St, activeSize),
        pricePerVial \in PricePerVialInputs, password \in PasswordInputs,
        oks \in Outcomes3 :
       LET selectedHold == Find(stockHolds, holdId)
           okInsert == oks[2]
           okDelete == oks[3]
           isValid == verifyPassword(currentUser.username, password, oks[1])
           verified == Called(St, oks[1])
           vialsPerPack == VIALS_PER_PACK[selectedHold.size]
           pricePerPack == pricePerVial * vialsPerPack
           saleDetails == [batchNumber |-> b.batch, price |-> pricePerPack,
                           saleDate |-> Today]
           result == convertHoldToSale(verified, selectedHold.id, saleDetails,
                                       okInsert, okDelete)
       IN  IF isValid
           THEN CommitWith("handleConvertToSale", holdId,
                           saleDetails @@ [password |-> password], result)
           ELSE /\ last' = [Ran("handleConvertToSale", holdId, verified,
                                "Invalid password. Please try again.")
                              EXCEPT !.args = NoArgs @@ [password |-> password]]
                /\ UNCHANGED <<db, session, currentUser, activeTab, activeSize, sales,
                               purchases, pipelinePurchases, stockHolds, stockAdjustments,
                               loading, dbConnected, nextId, inserted, users, inflight>>

\* Sales.handleRevertToHold on the sale picked by openRevertModal
HandleRevertToHold ==
  /\ SalesSection
  /\ \E saleId \in Filtered(sales), password \in PasswordInputs, oks \in Outcomes3 :
       LET selectedSale == Find(sales, saleId)
           okInsert == oks[2]
           okDelete == oks[3]
           isValid == verifyPassword(currentUser.username, password, oks[1])
           verified == Called(St, oks[1])
           result == revertSaleToHold(verified, selectedSale.id, okInsert, okDelete)
       IN  /\ RevertShown(currentUser, selectedSale)
           /\ IF isValid
              THEN CommitWith("handleRevertToHold", saleId,
                              NoArgs @@ [password |-> password], result)
              ELSE /\ last' = [Ran("handleRevertToHold", saleId, verified,
                                   "Invalid password. Please try again.")
                                 EXCEPT !.args = NoArgs @@ [password |-> password]]
                   /\ UNCHANGED <<db, session, currentUser, activeTab, activeSize, sales,
                                  purchases, pipelinePurchases, stockHolds, stockAdjustments,
                                  loading, dbConnected, nextId, inserted, users, inflight>>

\* The Delete buttons of the three tables of the Sales section
DeleteSaleClick ==
  /\ MainScreen /\ activeTab = "sales" /\ SaleDeleteShown(currentUser)
  /\ \E id \in Filtered(sales), ok \in BOOLEAN :
       Commit("deleteSale", id, deleteSale(St, id, ok))

DeleteStockHoldClick ==
  /\ MainScreen /\ activeTab = "sales" /\ HoldDeleteShown(currentUser)
  /\ \E id \in Filtered(stockHolds), ok \in BOOLEAN :
       Commit("deleteStockHold", id, deleteStockHold(St, id, ok))

DeleteStockAdjustmentClick ==
  /\ MainScreen /\ activeTab = "sales" /\ AdjustmentDeleteShown(currentUser)
  /\ \E id \in Filtered(stockAdjustments), ok \in BOOLEAN :
       Commit("deleteStockAdjustment", id, deleteStockAdjustment(St, id, ok))

\* ------------------------------------------------------------ Purchases section
\* Purchases.handleSubmit: the purchase form
PurchasesHandleSubmit ==
  /\ MainScreen /\ activeTab = "purchases" /\ nextId <= MaxId
  /\ \E batch \in BatchInputs, vials \in PurchaseVialInputs, costPerVial \in CostPerVialInputs,
        ok \in BOOLEAN :
       LET vialsPerPack == VIALS_PER_PACK[activeSize]
           packs == DivBy(vials, vialsPerPack)
           costPerPack == costPerVial * vialsPerPack
       IN  Commit("handleSubmitPurchase", NoId,
                  addPurchase(St, [supplierId |-> "s1", supplier |-> "Supplier",
                                   batchNumber |-> batch, expiryDate |-> Today,
                                   vials |-> vials, costPerVial |-> costPerVial,
                                   purchaseDate |-> Today, size |-> activeSize,
                                   units |-> packs, cost |-> costPerPack], ok))

DeletePurchaseClick ==
  /\ MainScreen /\ activeTab = "purchases" /\ PurchaseDeleteShown(currentUser)
  /\ \E id \in Filtered(purchases), ok \in BOOLEAN :
       Commit("deletePurchase", id, deletePurchase(St, id, ok))

\* ------------------------------------------------------------- Pipeline section
\* Pipeline.handleSubmit: the pipeline order form
PipelineHandleSubmit ==
  /\ MainScreen /\ activeTab = "pipeline" /\ nextId <= MaxId
  /\ \E size \in {"5ml"}, vials \in PipelineVialInputs, pricePerVial \in PricePerVialInputs,
        status \in StatusInputs, ok \in BOOLEAN :
       LET vialsPerPack == VIALS_PER_PACK[size]
           packs == DivBy(vials, vialsPerPack)
           pricePerPack == pricePerVial * vialsPerPack
       IN  Commit("handleSubmitPipeline", NoId,
                  addPipelinePurchase(St, [poNumber |-> "PO1", supplier |-> "Supplier",
                                           size |-> size, vials |-> vials,
                                           pricePerVial |-> pricePerVial,
                                           expectedDate |-> Today, status |-> status,
                                           units |-> packs, price |-> pricePerPack,
                                           totalValue |-> packs * pricePerPack], ok))

DeletePipelinePurchaseClick ==
  /\ MainScreen /\ activeTab = "pipeline" /\ PipelineDeleteShown(currentUser)
  /\ \E id \in Ids(pipelinePurchases), ok \in BOOLEAN :
       Commit("deletePipelinePurchase", id, deletePipelinePurchase(St, id, ok))

\* One session on the sections that write data (Sales, Purchases, Pipeline).
Next ==
  \/ InitializeApp
  \/ HandleLogin
  \/ SetActiveDataTab
  \/ SetActiveSize
  \/ SalesHandleSubmit
  \/ HandleHoldSubmit
  \/ HandleSampleSubmit
  \/ HandleConvertToSale
  \/ HandleRevertToHold
  \/ DeleteSaleClick
  \/ DeleteStockHoldClick
  \/ DeleteStockAdjustmentClick
  \/ PurchasesHandleSubmit
  \/ DeletePurchaseClick
  \/ PipelineHandleSubmit
  \/ DeletePipelinePurchaseClick

Spec == Init /\ [][Next]_vars

\* Sessions following one another, on every tab; of the data, the pipeline orders.
NextAccess ==
  \/ InitializeApp
  \/ HandleLogin
  \/ HandleLogout
  \/ SetActiveTab
  \/ PipelineHandleSubmit
  \/ DeletePipelinePurchaseClick

SpecAccess == Init /\ [][NextAccess]_vars

\* Logging in and out, page loads and the removal of users.
NextSession ==
  \/ InitializeApp
  \/ HandleLoginTyped
  \/ HandleLogout
  \/ Reload
  \/ DeleteUser

SpecSession == Init /\ [][NextSession]_vars

\* The same, with the run of initializeApp that the mount effect starts taking place.
SpecStartup == Init /\ [][NextSession]_vars /\ WF_vars(InitializeApp)

\* Conversions and reversions confirmed with the password, by the users of the users
\* table and by those the administrator adds.
NextConfirm ==
  \/ InitializeApp
  \/ HandleLoginStored
  \/ HandleLogout
  \/ SetActiveTab
  \/ AddUser
  \/ HandleConvertToSale
  \/ HandleRevertToHold

SpecConfirm == Init /\ [][NextConfirm]_vars

\* ------------------------------------------------- calls of the App's functions
\* The options of the status select of the pipeline form.
StatusOptions == {"Ordered", "In Transit", "Delayed", "Received"}

\* The ids a caller may pass: those of rows of any table, and one never assigned.
IdArgs == 1..(MaxId + 1)

\* addPipelinePurchase(pp) called by a component: pp carries one of the statuses of
\* the select, an empty status, or no status at all (Null).
CallAddPipelinePurchase ==
  /\ MainScreen /\ nextId <= MaxId
  /\ \E status \in StatusOptions \cup {"", Null}, ok \in BOOLEAN :
       LET order == [poNumber |-> "PO1", supplier |-> "Supplier", size |-> "5ml",
                     expectedDate |-> Today, units |-> 4, price |-> 15,
                     totalValue |-> 60]
           pp == IF status = Null THEN order ELSE order @@ [status |-> status]
       IN  CommitWith("addPipelinePurchase", NoId, [status |-> status],
                      addPipelinePurchase(St, pp, ok))

\* addSale(sale) called by the sale form's handler.
CallAddSale ==
  /\ MainScreen /\ nextId <= MaxId
  /\ \E c \in CustomerInputs, ok \in BOOLEAN :
       Commit("addSale", NoId,
              addSale(St, [customerId |-> c.id, customer |-> c.name, country |-> c.country,
                           endDestination |-> "France", batchNumber |-> "B1",
                           vials |-> 10, pricePerVial |-> 3, saleDate |-> Today,
                           size |-> "5ml", units |-> 2, price |-> 15], ok))

\* convertHoldToSale(holdId, saleDetails) called with any id.
CallConvertHoldToSale ==
  /\ MainScreen /\ nextId <= MaxId
  /\ \E holdId \in IdArgs, oks \in Outcomes2 :
       LET saleDetails == [batchNumber |-> "B1", price |-> 15, saleDate |-> Today]
       IN  CommitWith("convertHoldToSale", holdId, saleDetails,
                      convertHoldToSale(St, holdId, saleDetails, oks[1], oks[2]))

\* revertSaleToHold(saleId) called with any id.
CallRevertSaleToHold ==
  /\ MainScreen /\ nextId <= MaxId
  /\ \E saleId \in IdArgs, oks \in Outcomes2 :
       Commit("revertSaleToHold", saleId,
              revertSaleToHold(St, saleId, oks[1], oks[2]))

\* The App's functions called directly, with every argument a caller can pass.
NextCalls ==
  \/ InitializeApp
  \/ HandleLogin
  \/ CallAddPipelinePurchase
  \/ CallAddSale
  \/ CallConvertHoldToSale
  \/ CallRevertSaleToHold

SpecCalls == Init /\ [][NextCalls]_vars

\* ----------------------------------------------------- operations in flight
\* Faulty variant: the list is rebuilt from the value the handler saw when it started
\* (setSales([data, ...sales])).
UpdaterFromClosure(prev, seen) == seen

\* setSales(prev => ...), setStockHolds(prev => ...): the update function receives the
\* list as it is when the update is applied, not the list the handler saw (seen) when
\* it started.
Updater(prev, seen) == prev

\* An operation as the handler runs it: p.op on the state st.
Apply(p, st) ==
  CASE p.op = "addSale" -> addSale(st, p.args, p.ok)
    [] p.op = "deleteSale" -> deleteSale(st, p.id, p.ok)
    [] p.op = "addStockHold" -> addStockHold(st, p.args, p.ok)
    [] p.op = "deleteStockHold" -> deleteStockHold(st, p.id, p.ok)

\* The handler runs up to its await: the backend call is issued and served, its
\* response is outstanding.  seen is the state the handler started in.
Begin(op, id, args, ok) ==
  LET p == [op |-> op, id |-> id, args |-> args, ok |-> ok, seen |-> St]
      served == Apply(p, St)
  IN  /\ MainScreen /\ activeTab = "sales" /\ Len(inflight) < MaxInFlight
      /\ db' = served.db
      /\ nextId' = served.nextId
      /\ inserted' = served.inserted
      /\ inflight' = Append(inflight, p)
      /\ last' = Ran("begin", id, St, Null)
      /\ UNCHANGED <<session, currentUser, activeTab, activeSize, sales, purchases,
                     pipelinePurchases, stockHolds, stockAdjustments, loading,
                     dbConnected, users>>

BeginAddSale ==
  /\ nextId <= MaxId
  /\ \E c \in CustomerInputs, ok \in BOOLEAN :
       Begin("addSale", NoId,
             [customerId |-> c.id, customer |-> c.name, country |-> c.country,
              endDestination |-> "France", batchNumber |-> "B1", vials |-> 10,
              pricePerVial |-> 3, saleDate |-> Today, size |-> activeSize,
              units |-> 2, price |-> 15], ok)

BeginDeleteSale ==
  /\ SaleDeleteShown(currentUser)
  /\ \E id \in Filtered(sales), ok \in BOOLEAN : Begin("deleteSale", id, NoArgs, ok)

BeginAddStockHold ==
  /\ nextId <= MaxId
  /\ \E c \in CustomerInputs, ok \in BOOLEAN :
       Begin("addStockHold", NoId,
             [customerId |-> c.id, customer |-> c.name, country |-> c.country,
              endDestination |-> "France", vials |-> 20, notes |-> "",
              holdDate |-> Today, size |-> activeSize, units |-> 4], ok)

BeginDeleteStockHold ==
  /\ HoldDeleteShown(currentUser)
  /\ \E id \in Filtered(stockHolds), ok \in BOOLEAN : Begin("deleteStockHold", id, NoArgs, ok)

\* The response of one outstanding call arrives, in any order: the handler resumes
\* after its await and its state update is applied to the lists as they are now.
Complete ==
  \E k \in 1..Len(inflight) :
    LET p == inflight[k]
        resumed == Apply(p, [p.seen EXCEPT !.sales = Updater(sales, @),
                                           !.stockHolds = Updater(stockHolds, @)])
    IN  /\ sales' = resumed.sales
        /\ stockHolds' = resumed.stockHolds
        /\ inflight' = [i \in 1..(Len(inflight) - 1) |->
                          IF i < k THEN inflight[i] ELSE inflight[i + 1]]
        /\ last' = [Ran(p.op, p.id, resumed, resumed.result.error)
                      EXCEPT !.calls = <<IF p.ok THEN "ok" ELSE "error">>]
        /\ UNCHANGED <<db, session, currentUser, activeTab, activeSize, purchases,
                       pipelinePurchases, stockAdjustments, loading, dbConnected,
                       nextId, inserted, users>>

\* The administrator is logged in, every list is loaded, the Sales tab is open.
InitAsync ==
  /\ db = InitialDb
  /\ session = SessionOf(CHOOSE u \in UsersTable : u.username = "admin")
  /\ currentUser = session
  /\ activeTab = "sales"
  /\ activeSize = "5ml"
  /\ sales = Reverse(MapCamel(InitialDb.sales))
  /\ purchases = Reverse(MapCamel(InitialDb.purchases))
  /\ pipelinePurchases = MapCamel(InitialDb.pipeline_purchases)
  /\ stockHolds = Reverse(MapCamel(InitialDb.stock_holds))
  /\ stockAdjustments = Reverse(MapCamel(InitialDb.stock_adjustments))
  /\ loading = FALSE
  /\ dbConnected = TRUE
  /\ nextId = FirstId
  /\ inserted = InitialPurchases \o InitialHolds
  /\ users = UsersTable
  /\ inflight = <<>>
  /\ last = Ran("none", NoId, St, Null)

\* Sales and stock holds added and deleted while earlier calls are outstanding.
NextAsync ==
  \/ BeginAddSale
  \/ BeginDeleteSale
  \/ BeginAddStockHold
  \/ BeginDeleteStockHold
  \/ Complete

SpecAsync == InitAsync /\ [][NextAsync]_vars

\* ------------------------------------------- the numbers of the entry forms
\* The handlers of the forms compute with JavaScript numbers (IEEE 754 doubles).  A
\* natural number of any size is held as its bits, lowest first; a positive double is
\* [m, e]: a mantissa m of 53 bits whose highest bit is 1, and the value m * 2^e.
Precision == 53

\* Multiplication and division go through limbs of 13 bits (base 8192), lowest first.
RECURSIVE NatBits(_)
NatBits(n) == IF n = 0 THEN <<>> ELSE <<n % 2>> \o NatBits(n \div 2)

RECURSIVE Pow2(_)
Pow2(k) == IF k = 0 THEN 1 ELSE 2 * Pow2(k - 1)

Zeros(k) == [i \in 1..k |-> 0] \o <<>>

\* The bits without the zeros above the highest 1.
Trim(a) ==
  LET ones == {i \in 1..Len(a) : a[i] = 1}
  IN  IF ones = {} THEN <<>> ELSE SubSeq(a, 1, CHOOSE i \in ones : \A j \in ones : j <= i)

\* a + 1
Increment(a) ==
  LET zeros == {i \in 1..Len(a) : a[i] = 0}
      low == CHOOSE i \in zeros : \A j \in zeros : i <= j
  IN  IF zeros = {} THEN Zeros(Len(a)) \o <<1>>
      ELSE [i \in 1..Len(a) |-> IF i < low THEN 0 ELSE IF i = low THEN 1 ELSE a[i]] \o <<>>

\* The value of the k bits of a from position from on.
RECURSIVE LimbValue(_, _, _)
LimbValue(a, from, k) ==
  IF k = 0 THEN 0
  ELSE (IF from <= Len(a) THEN a[from] ELSE 0) + 2 * LimbValue(a, from + 1, k - 1)

Limbs(a) ==
  [j \in 1..((Len(a) + 13 - 1) \div 13) |->
     LimbValue(a, 13 * (j - 1) + 1, 13)] \o <<>>

BitsOf(limbs) ==
  [i \in 1..(13 * Len(limbs)) |->
     (limbs[((i - 1) \div 13) + 1] \div Pow2((i - 1) % 13)) % 2] \o <<>>

\* The sum of x[i] * y[k - i + 1] over the limbs i, i + 1, ... of x.
RECURSIVE Column(_, _, _, _)
Column(x, y, k, i) ==
  IF i > Len(x) THEN 0
  ELSE (IF k - i + 1 \in 1..Len(y) THEN x[i] * y[k - i + 1] ELSE 0) + Column(x, y, k, i + 1)

\* The limbs of the columns from k on, with the carry of the columns below.
RECURSIVE Carried(_, _, _, _)
Carried(x, y, k, carry) ==
  IF k > Len(x) + Len(y) THEN <<>>
  ELSE LET sum == Column(x, y, k, 1) + carry
       IN  <<sum % 8192>> \o Carried(x, y, k + 1, sum \div 8192)

\* a * b
BitsMul(a, b) == BitsOf(Carried(Limbs(a), Limbs(b), 1, 0))

\* The limbs x divided by a small natural d: the quotient and the remainder.
RECURSIVE LimbsDiv(_, _)
LimbsDiv(x, d) ==
  IF x = <<>> THEN [q |-> <<>>, r |-> 0]
  ELSE LET high == LimbsDiv(Tail(x), d)
           cur == 8192 * high.r + Head(x)
       IN  [q |-> <<cur \div d>> \o high.q, r |-> cur % d]

\* a divided by a small natural d: the quotient and the remainder.
BitsDiv(a, d) ==
  LET res == LimbsDiv(Limbs(a), d)
  IN  [q |-> BitsOf(res.q), r |-> res.r]

\* The double nearest to n * 2^e (plus a fraction of 2^e when inexact), ties to the
\* even mantissa: what every arithmetic operation on doubles returns.
RoundToDouble(n, inexact, e) ==
  LET len == Len(n)
      drop == len - Precision
      kept == SubSeq(n, drop + 1, len)
      half == n[drop] = 1
      below == inexact \/ \E i \in 1..(drop - 1) : n[i] = 1
      up == half /\ (below \/ kept[1] = 1)
      raised == Increment(kept)
  IN  IF len <= Precision
      THEN [m |-> Zeros(Precision - len) \o n, e |-> e - (Precision - len)]
      ELSE IF ~up THEN [m |-> kept, e |-> e + drop]
      ELSE IF Len(raised) = Precision THEN [m |-> raised, e |-> e + drop]
      ELSE [m |-> Tail(raised), e |-> e + drop + 1]

\* A whole number as a double.
FromNat(n) == RoundToDouble(NatBits(n), FALSE, 0)

\* x * y
Times(x, y) == RoundToDouble(Trim(BitsMul(x.m, y.m)), FALSE, x.e + y.e)

\* x / d for a whole d below 128 (the vials per pack, a power of ten below 128).
Over(x, d) ==
  LET res == BitsDiv(Zeros(8) \o x.m, d)
  IN  RoundToDouble(Trim(res.q), res.r # 0, x.e - 8)

\* parseFloat of the text of a number input: digits, of which decimals are behind the
\* point ("7" is digits 7, decimals 0; "0.9" is digits 9, decimals 1).
parseFloat(text) ==
  Over(FromNat(text.digits), IF text.decimals = 0 THEN 1
                              ELSE IF text.decimals = 1 THEN 10 ELSE 100)

\* What can be typed into the vials field and into the price (or cost) per vial field.
VialTexts == [digits : 1..12, decimals : {0}] \cup [digits : {9}, decimals : {1}]

PriceTexts == [digits : 1..10, decimals : {0}] \cup [digits : {1}, decimals : {2}]

\* The forms that take a number of vials; those of them that take a price per vial.
Forms == {"sale", "purchase", "hold", "sample", "pipeline"}

PricedForms == {"sale", "purchase", "pipeline"}

\* A form filled in: the size it is for and the texts of its number fields (the forms
\* without a price field have none).
Entries ==
  [form : PricedForms, size : SizeSet, vials : VialTexts, pricePerVial : PriceTexts]
  \cup [form : Forms \ PricedForms, size : SizeSet, vials : VialTexts,
        pricePerVial : {[digits |-> 1, decimals |-> 0]}]

\* The first lines of Sales.handleSubmit, Purchases.handleSubmit, Pipeline.handleSubmit,
\* handleHoldSubmit and handleSampleSubmit: the vials and the price per vial typed
\* become packs and a price per pack.
EntryConversion ==
  /\ MainScreen /\ last.op = "entry"
  /\ LET vials == parseFloat(last.typed.vials)
         vialsPerPack == VIALS_PER_PACK[last.typed.size]
         packs == Over(vials, vialsPerPack)
         pricePerVial == parseFloat(last.typed.pricePerVial)
         pricePerPack == Times(pricePerVial, FromNat(vialsPerPack))
     IN  last' = [op |-> "entryConversion", typed |-> last.typed,
                  vials |-> vials, pricePerVial |-> pricePerVial,
                  units |-> packs, price |-> pricePerPack]
  /\ UNCHANGED <<db, session, currentUser, activeTab, activeSize, sales, purchases,
                 pipelinePurchases, stockHolds, stockAdjustments, loading, dbConnected,
                 nextId, inserted, users, inflight>>

\* A user is logged in, the lists are loaded, and one of the forms is filled in.
InitNumbers ==
  /\ db = InitialDb
  /\ session = SessionOf(CHOOSE u \in UsersTable : u.username = "sam")
  /\ currentUser = session
  /\ activeTab = "sales"
  /\ activeSize = "5ml"
  /\ sales = Reverse(MapCamel(InitialDb.sales))
  /\ purchases = Reverse(MapCamel(InitialDb.purchases))
  /\ pipelinePurchases = MapCamel(InitialDb.pipeline_purchases)
  /\ stockHolds = Reverse(MapCamel(InitialDb.stock_holds))
  /\ stockAdjustments = Reverse(MapCamel(InitialDb.stock_adjustments))
  /\ loading = FALSE
  /\ dbConnected = TRUE
  /\ nextId = FirstId
  /\ inserted = InitialPurchases \o InitialHolds
  /\ users = UsersTable
  /\ inflight = <<>>
  /\ \E entry \in Entries : last = [op |-> "entry", typed |-> entry]

\* The numbers the entry forms hand to the add functions.
NextNumbers == EntryConversion

SpecNumbers == InitNumbers /\ [][NextNumbers]_vars

\* Sessions following one another while the administrator adds and deletes users.
NextUsers ==
  \/ InitializeApp
  \/ HandleLoginStored
  \/ HandleLogout
  \/ SetActiveTab
  \/ Reload
  \/ AddUser
  \/ DeleteUser

SpecUsers == Init /\ [][NextUsers]_vars

\* ------------------------------------------------ conversion followed by revert
\* Sales.handleConvertToSale on a hold and, once the sale it made is listed, Sales.
\* handleRevertToHold on that sale, with nothing else between the two.
ConvertThenRevert ==
  /\ SalesSection
  /\ \E holdId \in Filtered(stockHolds), b \in getBatches(St, activeSize),
        pricePerVial \in PricePerVialInputs, password \in PasswordInputs,
        oks \in Outcomes3, oksRevert \in Outcomes3 :
       LET selectedHold == Find(stockHolds, holdId)
           isValid == verifyPassword(currentUser.username, password, oks[1])
           verified == Called(St, oks[1])
           vialsPerPack == VIALS_PER_PACK[selectedHold.size]
           pricePerPack == pricePerVial * vialsPerPack
           saleDetails == [batchNumber |-> b.batch, price |-> pricePerPack,
                           saleDate |-> Today]
           converted == convertHoldToSale(verified, selectedHold.id, saleDetails,
                                          oks[2], oks[3])
           saleId == converted.result.id
           isValidAgain == verifyPassword(currentUser.username, password, oksRevert[1])
           verifiedAgain == Called(converted, oksRevert[1])
           reverted == revertSaleToHold(verifiedAgain, saleId, oksRevert[2], oksRevert[3])
       IN  /\ isValid /\ converted.result.success
           /\ saleId \in Ids(converted.sales)
           /\ RevertShown(currentUser, Find(converted.sales, saleId))
           /\ CommitWith("convertThenRevert", holdId,
                         saleDetails @@ [password |-> password],
                         IF isValidAgain
                         THEN reverted
                         ELSE [verifiedAgain EXCEPT
                                 !.result = Failure("Invalid password. Please try again.")])

NextRoundTrip ==
  \/ SetActiveSize
  \/ SalesHandleSubmit
  \/ HandleHoldSubmit
  \/ HandleSampleSubmit
  \/ ConvertThenRevert

SpecRoundTrip == InitAsync /\ [][NextRoundTrip]_vars

\* ------------------------------------------------- the Dashboard's sales figures
\* The number 0, and x + y on doubles that are 0 or positive.
Zero == [m |-> <<>>, e |-> 0]

RECURSIVE LimbsAdd(_, _, _)
LimbsAdd(x, y, carry) ==
  IF x = <<>> /\ y = <<>>
  THEN IF carry = 0 THEN <<>> ELSE <<carry>>
  ELSE LET sum == (IF x = <<>> THEN 0 ELSE Head(x)) + (IF y = <<>> THEN 0 ELSE Head(y)) + carry
       IN  <<sum % 8192>> \o LimbsAdd(IF x = <<>> THEN x ELSE Tail(x),
                                      IF y = <<>> THEN y ELSE Tail(y), sum \div 8192)

Plus(x, y) ==
  IF x.m = <<>> THEN y
  ELSE IF y.m = <<>> THEN x
  ELSE LET low == IF x.e < y.e THEN x.e ELSE y.e
           xs == Zeros(x.e - low) \o x.m
           ys == Zeros(y.e - low) \o y.m
       IN  RoundToDouble(Trim(BitsOf(LimbsAdd(Limbs(xs), Limbs(ys), 0))), FALSE, low)

\* x > y
Greater(x, y) ==
  IF x.m = <<>> THEN FALSE
  ELSE IF y.m = <<>> THEN TRUE
  ELSE \/ x.e > y.e
       \/ /\ x.e = y.e
          /\ \E i \in 1..Precision :
               /\ x.m[i] > y.m[i]
               /\ \A j \in (i + 1)..Precision : x.m[j] = y.m[j]

\* (parseFloat(s.units) || 0) * (parseFloat(s.price) || 0)
saleValue(s) == Times(s.units, s.price)

\* list.reduce((a, s) => a + value(s), 0), and total += value over forEach
RECURSIVE sumOfValues(_)
sumOfValues(list) ==
  IF list = <<>> THEN Zero
  ELSE Plus(sumOfValues(SubSeq(list, 1, Len(list) - 1)), saleValue(list[Len(list)]))

\* calcMetrics: revenue of one size
revenueOf(list, size) == sumOfValues(SelectSeq(list, LAMBDA s : s.size = size))

\* App: totalRevenue = SIZES.reduce((a, s) => a + metrics[s].revenue, 0)
RECURSIVE totalRevenueUpTo(_, _)
totalRevenueUpTo(list, k) ==
  IF k = 0 THEN Zero
  ELSE Plus(totalRevenueUpTo(list, k - 1), revenueOf(list, SIZES[k]))

totalRevenue(list) == totalRevenueUpTo(list, Len(SIZES))

\* s.endDestination || s.country || 'Unknown'
countryKey(s) ==
  IF s.endDestination \notin {"", Null} THEN s.endDestination
  ELSE IF s.country \notin {"", Null} THEN s.country
  ELSE "Unknown"

\* countryData after the forEach over filtered: the keys in the order in which they
\* were first written, each with its running sum.
RECURSIVE countryData(_)
countryData(filtered) ==
  IF filtered = <<>> THEN <<>>
  ELSE LET before == countryData(SubSeq(filtered, 1, Len(filtered) - 1))
           s == filtered[Len(filtered)]
           seen == \E i \in 1..Len(before) : before[i].country = countryKey(s)
       IN  IF seen
           THEN [i \in 1..Len(before) |->
                   IF before[i].country = countryKey(s)
                   THEN [before[i] EXCEPT !.value = Plus(@, saleValue(s))]
                   ELSE before[i]]
           ELSE Append(before, [country |-> countryKey(s),
                                value |-> Plus(Zero, saleValue(s))])

\* .sort((a, b) => b.value - a.value): by value, largest first, equal values in the
\* order they had.
sortByValue(entries) ==
  LET place(i) ==
        1 + Cardinality({j \in 1..Len(entries) : Greater(entries[j].value, entries[i].value)})
          + Cardinality({j \in 1..(i - 1) : entries[j].value = entries[i].value})
  IN  [k \in 1..Len(entries) |-> entries[CHOOSE i \in 1..Len(entries) : place(i) = k]]

\* Dashboard.getCountrySales with selectedYear 'all' (the percentage texts left out).
getCountrySales(list) ==
  [data |-> sortByValue(countryData(list)), total |-> sumOfValues(list)]

\* The sales the Dashboard is given: entered with the sale form (whole vials, whole
\* prices per vial), or rows of an older release without an end destination.
DashboardSales ==
  { [size |-> size, units |-> Over(FromNat(e[1]), VIALS_PER_PACK[size]),
     price |-> Times(FromNat(e[2]), FromNat(VIALS_PER_PACK[size])),
     endDestination |-> d[1], country |-> d[2]] :
      size \in {"5ml", "100ml"}, e \in {<<7, 9>>, <<11, 9>>, <<11, 5>>},
      d \in {<<"France", "Spain">>, <<"", "Spain">>, <<"", "">>} }

MaxSales == 3

\* The Dashboard renders: getCountrySales and the revenue total are computed.
RenderDashboard ==
  /\ MainScreen /\ activeTab = "dashboard" /\ last.op = "none"
  /\ last' = [op |-> "dashboard", countrySales |-> getCountrySales(sales),
              totalRevenue |-> totalRevenue(sales)]
  /\ UNCHANGED <<db, session, currentUser, activeTab, activeSize, sales, purchases,
                 pipelinePurchases, stockHolds, stockAdjustments, loading, dbConnected,
                 nextId, inserted, users, inflight>>

\* A user is logged in with up to MaxSales sales loaded, and the Dashboard is open.
InitDashboard ==
  /\ db = InitialDb
  /\ session = SessionOf(CHOOSE u \in UsersTable : u.username = "sam")
  /\ currentUser = session
  /\ activeTab = "dashboard"
  /\ activeSize = "5ml"
  /\ \E n \in 1..MaxSales : sales \in [1..n -> DashboardSales]
  /\ purchases = Reverse(MapCamel(InitialDb.purchases))
  /\ pipelinePurchases = <<>>
  /\ stockHolds = <<>>
  /\ stockAdjustments = <<>>
  /\ loading = FALSE
  /\ dbConnected = TRUE
  /\ nextId = FirstId
  /\ inserted = InitialPurchases \o InitialHolds
  /\ users = UsersTable
  /\ inflight = <<>>
  /\ last = Ran("none", NoId, St, Null)

NextDashboard == RenderDashboard

SpecDashboard == InitDashboard /\ [][NextDashboard]_vars

\* ------------------------------------------------------------------ properties
\* The sum of the units of the records of one size in a local list.
SumUnits(seq, size) ==
  Reduce(LAMBDA r : IF r.size = size THEN r.units ELSE 0, seq, 0)

\* C1: in every reachable state, for each size the stock of calcMetrics is the sum of
\* the units of the purchases of that size minus that of the sales minus that of the
\* stock adjustments, over the local lists.
C1_StockIsPurchasedMinusSoldMinusAdjusted ==
  \A size \in SizeSet :
    calcMetrics(St)[size].stock =
      SumUnits(purchases, size) - SumUnits(sales, size) - SumUnits(stockAdjustments, size)

\* A size with purchases, sales and adjustments, after a handler wrote one of them.
C1_Witness ==
  /\ last.op \in {"handleSubmit", "handleSampleSubmit"} /\ last.calls = <<"ok">>
  /\ \E size \in SizeSet :
       /\ SumUnits(purchases, size) > 0
       /\ SumUnits(sales, size) > 0
       /\ SumUnits(stockAdjustments, size) > 0

\* The three backend calls of a conversion or reversion: verifyPassword, insert, delete.
AllOk == <<"ok", "ok", "ok">>

DeleteFailed == <<"ok", "ok", "error">>

\* The fields a sale takes over from the hold it is converted from.
Moved == {"customer", "customerId", "country", "endDestination", "size", "units"}

\* C2: when convertHoldToSale runs on a hold of stockHolds and both the sale insert and
\* the hold delete succeed, stockHolds loses that hold, sales gains exactly one record,
\* which has the hold's customer, customerId, country, endDestination, size and units
\* and the batchNumber, price and saleDate of saleDetails; every other sale and hold
\* is unchanged.
C2_ConvertMovesTheHold ==
  [][(last'.op = "handleConvertToSale" /\ last'.calls = AllOk) =>
       LET hold == Find(stockHolds, last'.id)
           sale == Find(sales', last'.newId)
       IN  /\ last'.id \in Ids(stockHolds)
           /\ stockHolds' = FilterSeq(stockHolds, LAMBDA h : h.id # last'.id)
           /\ last'.id \notin Ids(stockHolds')
           /\ last'.newId \notin Ids(sales)
           /\ sales' = Prepend(sale, sales)
           /\ \A k \in Moved : sale[k] = hold[k]
           /\ sale.batchNumber = last'.args.batchNumber
           /\ sale.price = last'.args.price
           /\ sale.saleDate = last'.args.saleDate]_vars

\* A conversion that succeeded on a hold, other records being present.
C2_Witness ==
  /\ last.op = "handleConvertToSale" /\ last.calls = AllOk
  /\ last.id \notin Ids(stockHolds)
  /\ Len(sales) >= 2

\* C3: whenever convertHoldToSale or revertSaleToHold has returned, the newly created
\* target record and the original source record do not both exist.
\* Violated when the insert succeeds and the delete fails.
C3_ConversionIsAtomic ==
  /\ (last.op = "handleConvertToSale" /\ last.newId # NoId) =>
       ~(last.newId \in Ids(sales) /\ last.id \in Ids(stockHolds))
  /\ (last.op = "handleRevertToHold" /\ last.newId # NoId) =>
       ~(last.newId \in Ids(stockHolds) /\ last.id \in Ids(sales))

\* C4: if the insert of a conversion or reversion succeeds and the delete that follows
\* fails, the created record stays in the target list, the source record stays in the
\* source list, and the operation returns success: true.
C4_NoRollback ==
  /\ (last.op = "handleConvertToSale" /\ last.calls = DeleteFailed) =>
       /\ last.success
       /\ last.newId \in Ids(sales)
       /\ last.id \in Ids(stockHolds)
  /\ (last.op = "handleRevertToHold" /\ last.calls = DeleteFailed) =>
       /\ last.success
       /\ last.newId \in Ids(stockHolds)
       /\ last.id \in Ids(sales)

\* A reversion whose delete failed, after a conversion whose delete failed (the
\* hold of a converted sale is still in stockHolds).
C4_Witness ==
  /\ last.op = "handleRevertToHold" /\ last.calls = DeleteFailed
  /\ \E s \in Ids(sales) : Find(sales, s).originalHoldId \in Ids(stockHolds)

\* C5: a sale created by convertHoldToSale has convertedFrom = 'stockHold' and the id
\* of its hold as originalHoldId; a hold created by revertSaleToHold has revertedFrom =
\* 'sale' and the id of its sale as originalSaleId; sales and holds created through the
\* forms have null lineage.
C5_Lineage ==
  /\ (last.op = "handleConvertToSale" /\ last.newId # NoId) =>
       /\ Find(sales, last.newId).convertedFrom = "stockHold"
       /\ Find(sales, last.newId).originalHoldId = last.id
       /\ Find(db.sales, last.newId).converted_from = "stockHold"
       /\ Find(db.sales, last.newId).original_hold_id = last.id
  /\ (last.op = "handleRevertToHold" /\ last.newId # NoId) =>
       /\ Find(stockHolds, last.newId).revertedFrom = "sale"
       /\ Find(stockHolds, last.newId).originalSaleId = last.id
       /\ Find(db.stock_holds, last.newId).reverted_from = "sale"
       /\ Find(db.stock_holds, last.newId).original_sale_id = last.id
  /\ (last.op = "handleSubmit" /\ last.newId # NoId) =>
       /\ Find(sales, last.newId).convertedFrom = Null
       /\ Find(sales, last.newId).originalHoldId = NoId
  /\ (last.op = "handleHoldSubmit" /\ last.newId # NoId) =>
       /\ Find(stockHolds, last.newId).revertedFrom = Null
       /\ Find(stockHolds, last.newId).originalSaleId = NoId

\* A reversion has created a hold from a sale that a conversion had created.
C5_Witness ==
  /\ last.op = "handleRevertToHold" /\ last.newId # NoId
  /\ Find(stockHolds, last.newId).revertedFrom = "sale"
  /\ inserted[last.id].converted_from = "stockHold"

\* C6: when revertSaleToHold runs on a sale converted from a hold and both the hold
\* insert and the sale delete succeed, sales loses that sale, stockHolds gains exactly
\* one hold, which has the sale's customer, customerId, country, endDestination, size
\* and units, and the vials of the hold the sale was converted from.
\* Violated on the vials: the reversion rounds units x multiplier, the hold form
\* truncated what was typed.
C6_RevertRestoresTheHold ==
  [][(last'.op = "handleRevertToHold" /\ last'.calls = AllOk) =>
       LET sale == Find(sales, last'.id)
           hold == Find(stockHolds', last'.newId)
           original == inserted[sale.originalHoldId]
       IN  /\ sale.convertedFrom = "stockHold"
           /\ sales' = FilterSeq(sales, LAMBDA x : x.id # last'.id)
           /\ last'.newId \notin Ids(stockHolds)
           /\ stockHolds' = Prepend(hold, stockHolds)
           /\ \A k \in Moved : hold[k] = sale[k]
           /\ hold.vials = original.vials]_vars

\* The multiplier of each size, as the specification gives it.
Multiplier == [size \in SizeSet |-> CASE size = "5ml" -> 5 [] size = "10ml" -> 5 [] size = "100ml" -> 1]

\* C7: in every reachable state and for every size, the vial figures of calcMetrics are
\* the pack figures times the multiplier of the size (5, 5, 1), which never changes.
C7_VialsArePacksTimesMultiplier ==
  \A size \in SizeSet :
    LET m == calcMetrics(St)[size]
    IN  /\ m.vialsPerPack = Multiplier[size]
        /\ m.stockVials = m.stock * Multiplier[size]
        /\ m.soldVials = m.sold * Multiplier[size]
        /\ m.purchasedVials = m.purchased * Multiplier[size]
        /\ m.adjustedVials = m.adjusted * Multiplier[size]

\* Sold and adjusted vials of 5ml, purchased vials of 100ml.
C7_Witness ==
  /\ calcMetrics(St)["5ml"].soldVials > 0
  /\ calcMetrics(St)["5ml"].adjustedVials > 0
  /\ calcMetrics(St)["100ml"].purchasedVials > 0

\* Sum of units x amount over the records of one size in a local list.
SumValue(seq, size, amount(_)) ==
  Reduce(LAMBDA r : IF r.size = size THEN r.units * amount(r) ELSE 0, seq, 0)

\* C8: for every size, margin = revenue - sold x avgCost and stockValue = stock x
\* avgCost, with revenue the sum of units x price over the sales, cost the sum of
\* units x cost over the purchases, and avgCost = cost / purchased when purchased > 0
\* and 0 otherwise; with nothing purchased margin = revenue and stockValue = 0, and
\* nothing is divided by zero.
C8_MarginAndStockValue ==
  \A size \in SizeSet :
    LET m == calcMetrics(St)[size]
        revenue == SumValue(sales, size, LAMBDA r : r.price)
        cost == SumValue(purchases, size, LAMBDA r : r.cost)
        purchased == SumUnits(purchases, size)
        sold == SumUnits(sales, size)
    IN  /\ m.revenue = revenue
        /\ m.cost = cost
        /\ m.margin.d # 0
        /\ m.stockValue.d # 0
        /\ IF purchased > 0
           THEN /\ FracEq(m.margin, Frac(revenue * purchased - sold * cost, purchased))
                /\ FracEq(m.stockValue, Frac(m.stock * cost, purchased))
           ELSE /\ FracEq(m.margin, Frac(revenue, 1))
                /\ FracEq(m.stockValue, Frac(0, 1))

\* A size with sales and no purchases left, and a size with both.
C8_Witness ==
  /\ \E size \in SizeSet :
       SumUnits(purchases, size) = 0 /\ SumValue(sales, size, LAMBDA r : r.price) > 0
  /\ \E size \in SizeSet : SumUnits(purchases, size) > 0

\* C9: in every reachable state in which the Setup section is rendered, the role of
\* currentUser is 'admin', also when activeTab was left at 'setup' by an administrator
\* who logged out before another user logged in.
C9_SetupOnlyForAdmin ==
  SetupRendered => currentUser.role = "admin"

\* The Setup section is rendered right after a login: the tab was left at 'setup'.
C9_Witness ==
  SetupRendered /\ last.op = "handleLogin"

\* C10: while the logged-in user is not an administrator, no action removes a record
\* from sales, purchases, pipelinePurchases or stockAdjustments, no sale is reverted
\* to a hold, and a hold is removed only by converting it to a sale.
C10_NonAdminRemovesNothing ==
  [][(MainScreen /\ ~isAdmin(currentUser)) =>
       /\ Ids(sales) \subseteq Ids(sales')
       /\ Ids(purchases) \subseteq Ids(purchases')
       /\ Ids(pipelinePurchases) \subseteq Ids(pipelinePurchases')
       /\ Ids(stockAdjustments) \subseteq Ids(stockAdjustments')
       /\ \A t \in Tables \ {"stock_holds"} : Ids(db[t]) \subseteq Ids(db'[t])
       /\ last'.op # "handleRevertToHold"
       /\ \A h \in Ids(stockHolds) \ Ids(stockHolds') :
            last'.op = "handleConvertToSale" /\ last'.id = h]_vars

\* A user who is not an administrator has converted a hold, sales being recorded.
C10_Witness ==
  /\ MainScreen /\ ~isAdmin(currentUser)
  /\ last.op = "handleConvertToSale" /\ last.newId \in Ids(sales)
  /\ last.id \notin Ids(stockHolds)
  /\ Len(sales) >= 2

\* C11: handleLogin returns success: true and sets currentUser and the stored session
\* only when a users row has the typed user name, up to letter case, and exactly the
\* typed password; otherwise it returns success: false with an error and leaves
\* currentUser and the stored session unchanged.
\* Violated by a user name typed with a wildcard of LIKE.
C11_LoginOnlyWithMatchingUser ==
  [][last'.op = "handleLogin" =>
       IF last'.success
       THEN \E u \in users :
              /\ Lower(u.username) = Lower(last'.args.username)
              /\ u.password = last'.args.password
              /\ currentUser' = SessionOf(u)
              /\ session' = SessionOf(u)
       ELSE /\ last'.error # Null
            /\ UNCHANGED <<currentUser, session>>]_vars

\* The user of the stored session is still a row of the users table.
SessionUserExists == \E u \in users : u.id = session.id

\* The lookup of checkLogin returned (a row or none).
LookupReturned(calls) == Len(calls) = 2 /\ calls[2] # "thrown"

\* C20: checkLogin sets currentUser only if a session is stored and its user is still
\* in the users table; if the user is gone the stored session is removed and
\* currentUser stays null; handleLogout clears both, and with no stored session
\* initializeApp leaves currentUser null until handleLogin succeeds again.
C20_SessionRestore ==
  [][/\ last'.op = "initializeApp" =>
          /\ currentUser' # currentUser =>
                session # NoUser /\ SessionUserExists /\ currentUser' = session
          /\ (LookupReturned(last'.calls) /\ ~SessionUserExists) =>
                session' = NoUser /\ currentUser' = NoUser
          /\ session = NoUser => (currentUser' = NoUser /\ session' = NoUser)
     /\ last'.op = "handleLogout" => (currentUser' = NoUser /\ session' = NoUser)
     /\ (session = NoUser /\ session' # NoUser) =>
          (last'.op = "handleLogin" /\ last'.success)
     /\ (currentUser = NoUser /\ currentUser' # NoUser) =>
          \/ last'.op = "handleLogin" /\ last'.success
          \/ last'.op = "initializeApp" /\ session # NoUser]_vars

\* initializeApp found a stored session whose user had been deleted, and removed it.
C20_Witness ==
  /\ last.op = "initializeApp" /\ last.calls = <<"ok", "ok">>
  /\ session = NoUser /\ currentUser = NoUser
  /\ Cardinality(users) < Cardinality(UsersTable)

\* C12: adding or deleting a stock hold leaves sales, purchases and stockAdjustments
\* unchanged, and with them the stock, sold, revenue and margin of every size in
\* calcMetrics and the batches of getBatches.
C12_HoldsLeaveStockAlone ==
  [][last'.op \in {"handleHoldSubmit", "deleteStockHold"} =>
       /\ UNCHANGED <<sales, purchases, stockAdjustments>>
       /\ LET before == calcMetrics(St)
               after == calcMetrics(St)'
           IN  \A size \in SizeSet :
                 /\ after[size].stock = before[size].stock
                 /\ after[size].sold = before[size].sold
                 /\ after[size].revenue = before[size].revenue
                 /\ after[size].margin = before[size].margin
                 /\ getBatches(St, size)' = getBatches(St, size)]_vars

\* A hold was deleted while the sale converted from it was recorded.
C12_Witness ==
  /\ last.op = "deleteStockHold" /\ last.calls = <<"ok">>
  /\ last.id \notin Ids(stockHolds)
  /\ \E x \in Ids(sales) : Find(sales, x).originalHoldId = last.id

\* C13: the costPerPack recorded by the sample form is the cost of a purchase of the
\* selected batch and the active size, with totalCost = units x costPerPack; adding or
\* deleting purchases later leaves the adjustments and the adjustedValue of calcMetrics
\* unchanged.
\* Violated by a batch selected before a click on another size: no purchase of that
\* batch and size exists and 0 is recorded.
C13_AdjustmentCostSnapshot ==
  [][/\ (last'.op = "handleSampleSubmit" /\ last'.calls = <<"ok">>) =>
          LET adj == Head(stockAdjustments')
          IN  /\ stockAdjustments' = Prepend(adj, stockAdjustments)
              /\ adj.size = activeSize
              /\ adj.totalCost = adj.units * adj.costPerPack
              /\ \E i \in 1..Len(purchases) :
                    /\ purchases[i].batchNumber = adj.batchNumber
                    /\ purchases[i].size = activeSize
                    /\ purchases[i].cost = adj.costPerPack
     /\ last'.op \in {"handleSubmitPurchase", "deletePurchase"} =>
          /\ stockAdjustments' = stockAdjustments
          /\ \A size \in SizeSet :
               calcMetrics(St)'[size].adjustedValue = calcMetrics(St)[size].adjustedValue]_vars

\* C14: every record of pipelinePurchases, and every row of its table, has one of the
\* statuses Ordered, In Transit, Delayed, Received; a record added by
\* addPipelinePurchase without a status (none, or an empty one) has status Ordered.
C14_PipelineStatus ==
  /\ \A i \in 1..Len(pipelinePurchases) :
       pipelinePurchases[i].status \in {"Ordered", "In Transit", "Delayed", "Received"}
  /\ \A i \in 1..Len(db.pipeline_purchases) :
       db.pipeline_purchases[i].status \in {"Ordered", "In Transit", "Delayed", "Received"}
  /\ (/\ last.op = "addPipelinePurchase"
      /\ last.calls = <<"ok">>
      /\ last.args.status \in {"", Null})
     => /\ pipelinePurchases[Len(pipelinePurchases)].status = "Ordered"
        /\ db.pipeline_purchases[Len(db.pipeline_purchases)].status = "Ordered"

\* An order added without a status, after an order added as Received.
C14_Witness ==
  /\ last.op = "addPipelinePurchase"
  /\ last.calls = <<"ok">>
  /\ last.args.status = Null
  /\ Len(pipelinePurchases) = 2
  /\ pipelinePurchases[1].status = "Received"
  /\ pipelinePurchases[2].status = "Ordered"

\* The handlers of one add or delete operation, or of a conversion made of two.
WriteOps ==
  {"handleSubmit", "handleHoldSubmit", "handleSampleSubmit", "handleSubmitPurchase",
   "handleSubmitPipeline", "deleteSale", "deleteStockHold", "deleteStockAdjustment",
   "deletePurchase", "deletePipelinePurchase", "handleConvertToSale",
   "handleRevertToHold"}

\* The records of a local list, and the records the rows of a table stand for.
Records(seq) == {seq[i] : i \in 1..Len(seq)}

\* The local list holds exactly the records of the table, each once.
Mirrors(local, rows) ==
  /\ Records(local) = Records(MapCamel(rows))
  /\ Len(local) = Len(rows)

\* C15: after every add or delete operation, whether its backend call succeeded or
\* failed, each of sales, purchases, pipelinePurchases, stockHolds and stockAdjustments
\* holds exactly the records of its table; an operation whose insert or delete failed
\* leaves the tables and the local lists as they were.
C15_LocalMirrorsStore ==
  [][last'.op \in WriteOps =>
       /\ Mirrors(sales', db'.sales)
       /\ Mirrors(purchases', db'.purchases)
       /\ Mirrors(pipelinePurchases', db'.pipeline_purchases)
       /\ Mirrors(stockHolds', db'.stock_holds)
       /\ Mirrors(stockAdjustments', db'.stock_adjustments)
       /\ LET calls == last'.calls
              n == Len(calls)
          IN  /\ (n \in {1, 2} /\ calls[n] = "error")
                 => UNCHANGED <<db, sales, purchases, pipelinePurchases, stockHolds,
                                stockAdjustments>>
              /\ (n = 3 /\ calls[n] = "error" /\ last'.op = "handleConvertToSale")
                 => stockHolds' = stockHolds /\ db'.stock_holds = db.stock_holds
              /\ (n = 3 /\ calls[n] = "error" /\ last'.op = "handleRevertToHold")
                 => sales' = sales /\ db'.sales = db.sales]_vars

\* C16: no update is lost.  When add and delete operations on sales, or on stockHolds,
\* were in flight together and every response has arrived, in whatever order, the
\* list holds exactly the records of its table: every record added, none deleted.
C16_NoLostUpdates ==
  inflight = <<>> =>
    /\ Mirrors(sales, db.sales)
    /\ Mirrors(stockHolds, db.stock_holds)

\* Two sales were added while both calls were outstanding, and the response of the
\* second arrived first (the later sale is below the earlier one); every response is in.
C16_Witness ==
  /\ inflight = <<>>
  /\ last.op = "addSale"
  /\ Len(sales) = 2
  /\ sales[1].id < sales[2].id

\* C17: convertHoldToSale called with an id that is not in stockHolds returns
\* success false with error 'Stock hold not found' and makes no backend call; when
\* the insert of the sale fails it returns success false with the error of the
\* insert, makes no further call, deletes no hold and adds no sale.
C17_ConvertFailures ==
  [][last'.op = "convertHoldToSale" =>
       /\ last'.id \notin Ids(stockHolds) =>
            /\ ~last'.success
            /\ last'.error = "Stock hold not found"
            /\ last'.calls = <<>>
            /\ UNCHANGED <<db, sales, stockHolds>>
       /\ (last'.id \in Ids(stockHolds) /\ last'.calls[1] = "error") =>
            /\ ~last'.success
            /\ last'.error = addSale(St, NoArgs, FALSE).result.error
            /\ last'.calls = <<"error">>
            /\ UNCHANGED <<db, sales, stockHolds>>]_vars

\* A conversion of a hold of stockHolds whose insert failed.
C17_Witness ==
  /\ last.op = "convertHoldToSale"
  /\ last.calls = <<"error">>
  /\ last.id \in Ids(stockHolds)
  /\ ~last.success
  /\ sales = <<>>

\* C18: revertSaleToHold called with an id that is not in sales returns success false
\* with error 'Sale not found'; called on a sale whose convertedFrom is not 'stockHold'
\* it returns success false with error 'This sale was not converted from a stock
\* hold'; in both cases sales and stockHolds are unchanged and no backend call is made.
C18_RevertRefusals ==
  [][last'.op = "revertSaleToHold" =>
       /\ last'.id \notin Ids(sales) =>
            /\ ~last'.success
            /\ last'.error = "Sale not found"
            /\ last'.calls = <<>>
            /\ UNCHANGED <<db, sales, stockHolds>>
       /\ (last'.id \in Ids(sales) /\ Find(sales, last'.id).convertedFrom # "stockHold") =>
            /\ ~last'.success
            /\ last'.error = "This sale was not converted from a stock hold"
            /\ last'.calls = <<>>
            /\ UNCHANGED <<db, sales, stockHolds>>]_vars

\* A reversion refused for a sale entered with the sale form.
C18_Witness ==
  /\ last.op = "revertSaleToHold"
  /\ last.calls = <<>>
  /\ last.id \in Ids(sales)
  /\ Find(sales, last.id).convertedFrom # "stockHold"
  /\ last.error = "This sale was not converted from a stock hold"

\* C19: in handleConvertToSale and handleRevertToHold nothing is written to the
\* tables, to sales or to stockHolds unless the password check was answered before
\* the first insert; when the password typed is not the password of the user logged
\* in, or the check fails, the handler sets 'Invalid password. Please try again.' and
\* the tables, sales and stockHolds are unchanged.
C19_PasswordBeforeConversion ==
  [][last'.op \in {"handleConvertToSale", "handleRevertToHold"} =>
       LET typed == last'.args.password
           right == \E u \in users : u.id = currentUser.id /\ u.password = typed
       IN  /\ ~(UNCHANGED <<db, sales, stockHolds>>) =>
                Len(last'.calls) >= 2 /\ last'.calls[1] = "ok"
           /\ (~right \/ last'.calls[1] = "error") =>
                /\ last'.error = "Invalid password. Please try again."
                /\ UNCHANGED <<db, sales, stockHolds>>]_vars

\* C21: an entry of v vials at p per vial for a size with m vials per pack is handed
\* on as units = v / m and a price per pack p * m for which units * m = v and, in the
\* forms that take a price, units * price = v * p.
C21_ConversionPreservesQuantityAndValue ==
  last.op = "entryConversion" =>
    /\ Times(last.units, FromNat(VIALS_PER_PACK[last.typed.size])) = last.vials
    /\ last.typed.form \in {"sale", "purchase", "pipeline"} =>
         Times(last.units, last.price) = Times(last.vials, last.pricePerVial)

\* C22: the sale created by a conversion has the createdBy of the hold it was created
\* from, and the hold created by a reversion has the createdBy of the sale it was
\* created from, whoever is logged in.
C22_AuditTrailPreserved ==
  [][/\ (last'.op = "handleConvertToSale" /\ last'.success) =>
          Find(sales', last'.newId).createdBy = Find(stockHolds, last'.id).createdBy
     /\ (last'.op = "handleRevertToHold" /\ last'.success) =>
          Find(stockHolds', last'.newId).createdBy = Find(sales, last'.id).createdBy]_vars

\* C23: with the year filter at 'all', the total of getCountrySales equals the sum of
\* the revenues of the sizes and the sum of the values of its destinations; every sale
\* is counted under one key (its endDestination, else its country, else 'Unknown');
\* the destinations are listed by value, largest first.
C23_SalesByDestination ==
  last.op = "dashboard" =>
    LET data == last.countrySales.data
        keyOf(s) == IF s.endDestination \notin {"", Null} THEN s.endDestination
                    ELSE IF s.country \notin {"", Null} THEN s.country ELSE "Unknown"
    IN  /\ last.countrySales.total = last.totalRevenue
        /\ last.countrySales.total = sumOfValues([i \in 1..Len(data) |->
                                        [units |-> data[i].value, price |-> FromNat(1)]])
        /\ {data[i].country : i \in 1..Len(data)} = {keyOf(sales[i]) : i \in 1..Len(sales)}
        /\ \A i, j \in 1..Len(data) : i # j => data[i].country # data[j].country
        /\ \A i \in 1..(Len(data) - 1) : ~Greater(data[i + 1].value, data[i].value)

\* The sum of the units of the records of a list at the positions of a set.
RECURSIVE UnitsAt(_, _)
UnitsAt(seq, positions) ==
  IF positions = {} THEN 0
  ELSE LET i == CHOOSE j \in positions : TRUE
       IN  seq[i].units + UnitsAt(seq, positions \ {i})

\* The positions of a list that hold a record of a size and a batch number.
PositionsOf(seq, size, b) ==
  {i \in 1..Len(seq) : seq[i].size = size /\ seq[i].batchNumber = b}

\* Purchased units of a batch of a size minus the units of the sales and of the
\* adjustments of that size with that batch number.
AvailableOf(size, b) ==
  UnitsAt(purchases, PositionsOf(purchases, size, b))
    - UnitsAt(sales, PositionsOf(sales, size, b))
    - UnitsAt(stockAdjustments, PositionsOf(stockAdjustments, size, b))

\* C24: for every size, getBatches returns exactly the batch numbers of the purchases
\* of that size whose available quantity is strictly positive, one entry for each,
\* with availablePacks that quantity and availableVials = availablePacks x multiplier;
\* a sale or adjustment of a batch without a purchase of the size adds no entry.
C24_BatchesOffered ==
  \A size \in SizeSet :
    LET batches == getBatches(St, size)
        purchased == {purchases[i].batchNumber :
                        i \in {j \in 1..Len(purchases) : purchases[j].size = size}}
    IN  /\ {x.batch : x \in batches} = {b \in purchased : AvailableOf(size, b) > 0}
        /\ Cardinality(batches) = Cardinality({x.batch : x \in batches})
        /\ \A x \in batches :
             /\ x.availablePacks = AvailableOf(size, x.batch)
             /\ x.availableVials = x.availablePacks * VIALS_PER_PACK[size]
        /\ \A i \in 1..Len(sales) :
             (sales[i].size = size /\ sales[i].batchNumber \notin purchased) =>
               sales[i].batchNumber \notin {x.batch : x \in batches}
        /\ \A i \in 1..Len(stockAdjustments) :
             (stockAdjustments[i].size = size
                /\ stockAdjustments[i].batchNumber \notin purchased) =>
               stockAdjustments[i].batchNumber \notin {x.batch : x \in batches}

\* A batch is offered with part of it sold, while an adjustment names a batch that was
\* never purchased in its size.
C24_Witness ==
  /\ \E size \in SizeSet : \E x \in getBatches(St, size) :
       PositionsOf(sales, size, x.batch) # {}
  /\ \E i \in 1..Len(stockAdjustments) :
       PositionsOf(purchases, stockAdjustments[i].size,
                   stockAdjustments[i].batchNumber) = {}

\* C25: a conversion of a hold followed at once by the revert of the sale it made, every
\* backend call of both succeeding, leaves the stock, sold, revenue and margin of
\* every size in calcMetrics as they were before the conversion, and the numbers of
\* sales and of holds; the restored hold has the customer, size and units of the
\* original hold.
C25_ConvertRevertRoundTrip ==
  [][(/\ last'.op = "convertThenRevert"
      /\ last'.success
      /\ last'.calls = <<"ok", "ok", "ok", "ok", "ok", "ok">>) =>
       LET before == calcMetrics(St)
           after == calcMetrics(St)'
           original == Find(stockHolds, last'.id)
           restored == Find(stockHolds', last'.newId)
       IN  /\ \A size \in SizeSet :
                /\ after[size].stock = before[size].stock
                /\ after[size].sold = before[size].sold
                /\ after[size].revenue = before[size].revenue
                /\ after[size].margin = before[size].margin
           /\ Len(sales') = Len(sales)
           /\ Len(stockHolds') = Len(stockHolds)
           /\ last'.newId \in Ids(stockHolds') /\ last'.id \notin Ids(stockHolds')
           /\ restored.customer = original.customer
           /\ restored.size = original.size
           /\ restored.units = original.units]_vars

\* A hold was converted and restored with every call succeeding, beside a sale that
\* was there before.
C25_Witness ==
  /\ last.op = "convertThenRevert" /\ last.success
  /\ last.calls = <<"ok", "ok", "ok", "ok", "ok", "ok">>
  /\ sales # <<>>

\* C26: a hold is converted at most once: in every reachable state, for every hold id
\* at most one record of sales has that originalHoldId.
\* Violated after a conversion whose hold delete failed: the conversion reports
\* success, the hold stays in the list and its Convert button makes a second sale.
C26_ConvertedAtMostOnce ==
  \A i, j \in 1..Len(sales) :
    (/\ sales[i].convertedFrom = "stockHold"
     /\ sales[j].convertedFrom = "stockHold"
     /\ sales[i].originalHoldId = sales[j].originalHoldId) => i = j

\* C27: stock is never oversold: in every reachable state the available quantity of
\* every purchased batch of every size (purchased - sold - adjusted) and the stock of
\* every size in calcMetrics are at least 0.
\* Violated by a sale of more vials than the selected batch has: the forms offer the
\* batches of positive availability and take any number of vials.
C27_NeverOversold ==
  \A size \in SizeSet :
    /\ calcMetrics(St)[size].stock >= 0
    /\ \A i \in 1..Len(purchases) :
         purchases[i].size = size => AvailableOf(size, purchases[i].batchNumber) >= 0

C29_AdminStays ==
  /\ [](\E u \in users : u \in UsersTable /\ u.username = "admin")
  /\ [][last'.op = "deleteUser" =>
          \E user \in users :
            /\ user.id = last'.id
            /\ IF user.username = "admin"
               THEN last'.calls = <<>> /\ users' = users
               ELSE IF last'.calls = <<"ok">>
               THEN users' = users \ {user}
               ELSE last'.calls = <<"error">> /\ users' = users]_vars

\* deleteUser was run on the admin, after a user was added and another deleted.
C29_Witness ==
  /\ last.op = "deleteUser" /\ last.calls = <<>>
  /\ \E u \in users : u.username \in NewUsernameInputs
  /\ UsersTable \ users # {}

\* C30: every run of initializeApp ends with loading = false, so a page that is
\* loading gets past the loading screen; after a run dbConnected is true only if
\* Supabase is configured and the probe returned no error, and otherwise no data was
\* loaded and no session restored.
C30_InitializeAppEnds ==
  /\ [](loading => <>(~loading))
  /\ [][last'.op = "initializeApp" =>
          LET probed == last'.calls # <<>> /\ last'.calls[1] = "ok"
          IN  /\ loading' = FALSE
              /\ dbConnected' => probed
              /\ ~probed => UNCHANGED <<currentUser, session, sales, purchases,
                                        pipelinePurchases, stockHolds,
                                        stockAdjustments>>]_vars

\* The page was loaded again with a session stored and the probe returned an error:
\* the connection screen is shown and nobody is logged in.
C30_Witness ==
  /\ last.op = "initializeApp" /\ last.calls = <<"error">>
  /\ ~loading /\ ~dbConnected
  /\ session # NoUser /\ currentUser = NoUser

====
